---------------------------- MODULE Spec2Model ----------------------------
(***************************************************************************)
(* A model of the citation-graph tools: title normalisation and key        *)
(* derivation (analyze_citations.py), the k-cited / k-citing aggregation   *)
(* (analyze_citations.py), the graph construction (visualize_citations.py) *)
(* and the merge of provider records (get_citations.py).                   *)
(*                                                                         *)
(* A Python str is a sequence of one-character strings.  A Python value is *)
(* a record [t, s, n, l]: t is the type tag ("absent" for a dict member    *)
(* that is missing, "none", "str", "int", "list", and "raise" for an       *)
(* exception that left the function), s the characters of a str (or the    *)
(* exception's name), n the value of an int, l the items of a list of str. *)
(***************************************************************************)
EXTENDS Integers, Sequences, FiniteSets, TLC

VARIABLES
    \* normalize_title driven on a title and on an edited copy of it
    title, variant, edits, normalized, normalizedVariant, renormalized,
    titleKey, variantKey,
    \* get_paper_key (analyze_citations.py) driven on one record
    paper, key,
    \* the input document, what analyze_citations last returned for it and what
    \* analyze_for_graph last returned for it
    data, result, graph,
    \* the dicts that merge_paper_lists is given, by address, as they are now and
    \* as they were before the call; its two arguments; what it returned
    heap, heapBefore, list1, list2, merged

titleVars == <<title, variant, edits, normalized, normalizedVariant,
               renormalized, titleKey, variantKey>>
keyVars == <<paper, key>>
analysisVars == <<data, result, graph>>
mergeVars == <<heap, heapBefore, list1, list2, merged>>
vars == <<titleVars, keyVars, analysisVars, mergeVars>>
notTitleVars == <<keyVars, analysisVars, mergeVars>>
notKeyVars == <<titleVars, analysisVars, mergeVars>>
notAnalysisVars == <<titleVars, keyVars, mergeVars>>
notMergeVars == <<titleVars, keyVars, analysisVars>>

---------------------------------------------------------------------------
(* Python values *)

Absent == [t |-> "absent", s |-> <<>>, n |-> 0, l |-> <<>>]
None == [t |-> "none", s |-> <<>>, n |-> 0, l |-> <<>>]
Str(chars) == [t |-> "str", s |-> chars, n |-> 0, l |-> <<>>]
IntVal(i) == [t |-> "int", s |-> <<>>, n |-> i, l |-> <<>>]
ListVal(items) == [t |-> "list", s |-> <<>>, n |-> 0, l |-> items]
Raised(name) == [t |-> "raise", s |-> <<name>>, n |-> 0, l |-> <<>>]

\* Python truth value: bool(v)
Truthy(v) ==
    CASE v.t = "str" -> v.s # <<>>
      [] v.t = "int" -> v.n # 0
      [] v.t = "list" -> v.l # <<>>
      [] OTHER -> FALSE

\* dict.get(field, default); dict.get(field) is Get(d, field, None)
Get(d, field, default) == IF d[field].t = "absent" THEN default ELSE d[field]

---------------------------------------------------------------------------
(* Python str methods *)

\* A character is written as itself when it is a printable ASCII character
\* other than the backslash and the backquote; the tab, the line feed, the
\* carriage return and the form feed are written "\t", "\n", "\r" and "\f";
\* every other character is written by its code point, as in "U+00E2".

\* a character written as itself or with an escape, which is an ASCII character
Plain(c) == Len(c) = 1

\* the whitespace characters outside ASCII, and the ASCII ones that are written
\* by their code points
OtherWhitespace ==
    {
      "U+000B", "U+001C", "U+001D", "U+001E", "U+001F", "U+0085", "U+00A0", "U+1680",
      "U+2000", "U+2001", "U+2002", "U+2003", "U+2004", "U+2005", "U+2006", "U+2007",
      "U+2008", "U+2009", "U+200A", "U+2028", "U+2029", "U+202F", "U+205F", "U+3000"
    }

\* the characters that \d of a str pattern matches (the decimal digits of
\* Unicode), as ranges of code points: a range is the first and the last code
\* point, six hexadecimal digits each
Digits ==
    <<
      "000030-000039 000660-000669 0006F0-0006F9 0007C0-0007C9 000966-00096F 0009E6-0009EF ",
      "000A66-000A6F 000AE6-000AEF 000B66-000B6F 000BE6-000BEF 000C66-000C6F 000CE6-000CEF ",
      "000D66-000D6F 000DE6-000DEF 000E50-000E59 000ED0-000ED9 000F20-000F29 001040-001049 ",
      "001090-001099 0017E0-0017E9 001810-001819 001946-00194F 0019D0-0019D9 001A80-001A89 ",
      "001A90-001A99 001B50-001B59 001BB0-001BB9 001C40-001C49 001C50-001C59 00A620-00A629 ",
      "00A8D0-00A8D9 00A900-00A909 00A9D0-00A9D9 00A9F0-00A9F9 00AA50-00AA59 00ABF0-00ABF9 ",
      "00FF10-00FF19 0104A0-0104A9 010D30-010D39 011066-01106F 0110F0-0110F9 011136-01113F ",
      "0111D0-0111D9 0112F0-0112F9 011450-011459 0114D0-0114D9 011650-011659 0116C0-0116C9 ",
      "011730-011739 0118E0-0118E9 011950-011959 011C50-011C59 011D50-011D59 011DA0-011DA9 ",
      "016A60-016A69 016AC0-016AC9 016B50-016B59 01D7CE-01D7FF 01E140-01E149 01E2F0-01E2F9 ",
      "01E950-01E959 01FBF0-01FBF9 "
    >>

\* the characters outside ASCII of which str.lower() makes one other character
\* outside ASCII (the capital sigma as it is inside a word), as runs:
\* the first and the last code point of the run, the step from one character
\* of the run to the next, and the code point that the first one becomes; every
\* character of the run becomes the character as far from it as the first
\* one's is from the first
LowerRuns ==
    <<
      "0000C0-0000D6/1>0000E0 0000D8-0000DE/1>0000F8 000100-00012E/2>000101 000132-000136/2>000133 ",
      "000139-000147/2>00013A 00014A-000176/2>00014B 000178-000178/1>0000FF 000179-00017D/2>00017A ",
      "000181-000181/1>000253 000182-000184/2>000183 000186-000186/1>000254 000187-000187/1>000188 ",
      "000189-00018A/1>000256 00018B-00018B/1>00018C 00018E-00018E/1>0001DD 00018F-00018F/1>000259 ",
      "000190-000190/1>00025B 000191-000191/1>000192 000193-000193/1>000260 000194-000194/1>000263 ",
      "000196-000196/1>000269 000197-000197/1>000268 000198-000198/1>000199 00019C-00019C/1>00026F ",
      "00019D-00019D/1>000272 00019F-00019F/1>000275 0001A0-0001A4/2>0001A1 0001A6-0001A6/1>000280 ",
      "0001A7-0001A7/1>0001A8 0001A9-0001A9/1>000283 0001AC-0001AC/1>0001AD 0001AE-0001AE/1>000288 ",
      "0001AF-0001AF/1>0001B0 0001B1-0001B2/1>00028A 0001B3-0001B5/2>0001B4 0001B7-0001B7/1>000292 ",
      "0001B8-0001B8/1>0001B9 0001BC-0001BC/1>0001BD 0001C4-0001C4/1>0001C6 0001C5-0001C5/1>0001C6 ",
      "0001C7-0001C7/1>0001C9 0001C8-0001C8/1>0001C9 0001CA-0001CA/1>0001CC 0001CB-0001DB/2>0001CC ",
      "0001DE-0001EE/2>0001DF 0001F1-0001F1/1>0001F3 0001F2-0001F4/2>0001F3 0001F6-0001F6/1>000195 ",
      "0001F7-0001F7/1>0001BF 0001F8-00021E/2>0001F9 000220-000220/1>00019E 000222-000232/2>000223 ",
      "00023A-00023A/1>002C65 00023B-00023B/1>00023C 00023D-00023D/1>00019A 00023E-00023E/1>002C66 ",
      "000241-000241/1>000242 000243-000243/1>000180 000244-000244/1>000289 000245-000245/1>00028C ",
      "000246-00024E/2>000247 000370-000372/2>000371 000376-000376/1>000377 00037F-00037F/1>0003F3 ",
      "000386-000386/1>0003AC 000388-00038A/1>0003AD 00038C-00038C/1>0003CC 00038E-00038F/1>0003CD ",
      "000391-0003A1/1>0003B1 0003A3-0003AB/1>0003C3 0003CF-0003CF/1>0003D7 0003D8-0003EE/2>0003D9 ",
      "0003F4-0003F4/1>0003B8 0003F7-0003F7/1>0003F8 0003F9-0003F9/1>0003F2 0003FA-0003FA/1>0003FB ",
      "0003FD-0003FF/1>00037B 000400-00040F/1>000450 000410-00042F/1>000430 000460-000480/2>000461 ",
      "00048A-0004BE/2>00048B 0004C0-0004C0/1>0004CF 0004C1-0004CD/2>0004C2 0004D0-00052E/2>0004D1 ",
      "000531-000556/1>000561 0010A0-0010C5/1>002D00 0010C7-0010C7/1>002D27 0010CD-0010CD/1>002D2D ",
      "0013A0-0013EF/1>00AB70 0013F0-0013F5/1>0013F8 001C90-001CBA/1>0010D0 001CBD-001CBF/1>0010FD ",
      "001E00-001E94/2>001E01 001E9E-001E9E/1>0000DF 001EA0-001EFE/2>001EA1 001F08-001F0F/1>001F00 ",
      "001F18-001F1D/1>001F10 001F28-001F2F/1>001F20 001F38-001F3F/1>001F30 001F48-001F4D/1>001F40 ",
      "001F59-001F5F/2>001F51 001F68-001F6F/1>001F60 001F88-001F8F/1>001F80 001F98-001F9F/1>001F90 ",
      "001FA8-001FAF/1>001FA0 001FB8-001FB9/1>001FB0 001FBA-001FBB/1>001F70 001FBC-001FBC/1>001FB3 ",
      "001FC8-001FCB/1>001F72 001FCC-001FCC/1>001FC3 001FD8-001FD9/1>001FD0 001FDA-001FDB/1>001F76 ",
      "001FE8-001FE9/1>001FE0 001FEA-001FEB/1>001F7A 001FEC-001FEC/1>001FE5 001FF8-001FF9/1>001F78 ",
      "001FFA-001FFB/1>001F7C 001FFC-001FFC/1>001FF3 002126-002126/1>0003C9 00212B-00212B/1>0000E5 ",
      "002132-002132/1>00214E 002160-00216F/1>002170 002183-002183/1>002184 0024B6-0024CF/1>0024D0 ",
      "002C00-002C2F/1>002C30 002C60-002C60/1>002C61 002C62-002C62/1>00026B 002C63-002C63/1>001D7D ",
      "002C64-002C64/1>00027D 002C67-002C6B/2>002C68 002C6D-002C6D/1>000251 002C6E-002C6E/1>000271 ",
      "002C6F-002C6F/1>000250 002C70-002C70/1>000252 002C72-002C72/1>002C73 002C75-002C75/1>002C76 ",
      "002C7E-002C7F/1>00023F 002C80-002CE2/2>002C81 002CEB-002CED/2>002CEC 002CF2-002CF2/1>002CF3 ",
      "00A640-00A66C/2>00A641 00A680-00A69A/2>00A681 00A722-00A72E/2>00A723 00A732-00A76E/2>00A733 ",
      "00A779-00A77B/2>00A77A 00A77D-00A77D/1>001D79 00A77E-00A786/2>00A77F 00A78B-00A78B/1>00A78C ",
      "00A78D-00A78D/1>000265 00A790-00A792/2>00A791 00A796-00A7A8/2>00A797 00A7AA-00A7AA/1>000266 ",
      "00A7AB-00A7AB/1>00025C 00A7AC-00A7AC/1>000261 00A7AD-00A7AD/1>00026C 00A7AE-00A7AE/1>00026A ",
      "00A7B0-00A7B0/1>00029E 00A7B1-00A7B1/1>000287 00A7B2-00A7B2/1>00029D 00A7B3-00A7B3/1>00AB53 ",
      "00A7B4-00A7C2/2>00A7B5 00A7C4-00A7C4/1>00A794 00A7C5-00A7C5/1>000282 00A7C6-00A7C6/1>001D8E ",
      "00A7C7-00A7C9/2>00A7C8 00A7D0-00A7D0/1>00A7D1 00A7D6-00A7D8/2>00A7D7 00A7F5-00A7F5/1>00A7F6 ",
      "00FF21-00FF3A/1>00FF41 010400-010427/1>010428 0104B0-0104D3/1>0104D8 010570-01057A/1>010597 ",
      "01057C-01058A/1>0105A3 01058C-010592/1>0105B3 010594-010595/1>0105BB 010C80-010CB2/1>010CC0 ",
      "0118A0-0118BF/1>0118C0 016E40-016E5F/1>016E60 01E900-01E921/1>01E922 "
    >>

\* the characters that are cased and not case-ignorable, as ranges of code points
CasedLetters ==
    <<
      "000041-00005A 000061-00007A 0000AA-0000AA 0000B5-0000B5 0000BA-0000BA 0000C0-0000D6 ",
      "0000D8-0000F6 0000F8-0001BA 0001BC-0001BF 0001C4-000293 000295-0002AF 000370-000373 ",
      "000376-000377 00037B-00037D 00037F-00037F 000386-000386 000388-00038A 00038C-00038C ",
      "00038E-0003A1 0003A3-0003F5 0003F7-000481 00048A-00052F 000531-000556 000560-000588 ",
      "0010A0-0010C5 0010C7-0010C7 0010CD-0010CD 0010D0-0010FA 0010FD-0010FF 0013A0-0013F5 ",
      "0013F8-0013FD 001C80-001C88 001C90-001CBA 001CBD-001CBF 001D00-001D2B 001D6B-001D77 ",
      "001D79-001D9A 001E00-001F15 001F18-001F1D 001F20-001F45 001F48-001F4D 001F50-001F57 ",
      "001F59-001F59 001F5B-001F5B 001F5D-001F5D 001F5F-001F7D 001F80-001FB4 001FB6-001FBC ",
      "001FBE-001FBE 001FC2-001FC4 001FC6-001FCC 001FD0-001FD3 001FD6-001FDB 001FE0-001FEC ",
      "001FF2-001FF4 001FF6-001FFC 002102-002102 002107-002107 00210A-002113 002115-002115 ",
      "002119-00211D 002124-002124 002126-002126 002128-002128 00212A-00212D 00212F-002134 ",
      "002139-002139 00213C-00213F 002145-002149 00214E-00214E 002160-00217F 002183-002184 ",
      "0024B6-0024E9 002C00-002C7B 002C7E-002CE4 002CEB-002CEE 002CF2-002CF3 002D00-002D25 ",
      "002D27-002D27 002D2D-002D2D 00A640-00A66D 00A680-00A69B 00A722-00A76F 00A771-00A787 ",
      "00A78B-00A78E 00A790-00A7CA 00A7D0-00A7D1 00A7D3-00A7D3 00A7D5-00A7D9 00A7F5-00A7F6 ",
      "00A7FA-00A7FA 00AB30-00AB5A 00AB60-00AB68 00AB70-00ABBF 00FB00-00FB06 00FB13-00FB17 ",
      "00FF21-00FF3A 00FF41-00FF5A 010400-01044F 0104B0-0104D3 0104D8-0104FB 010570-01057A ",
      "01057C-01058A 01058C-010592 010594-010595 010597-0105A1 0105A3-0105B1 0105B3-0105B9 ",
      "0105BB-0105BC 010C80-010CB2 010CC0-010CF2 0118A0-0118DF 016E40-016E7F 01D400-01D454 ",
      "01D456-01D49C 01D49E-01D49F 01D4A2-01D4A2 01D4A5-01D4A6 01D4A9-01D4AC 01D4AE-01D4B9 ",
      "01D4BB-01D4BB 01D4BD-01D4C3 01D4C5-01D505 01D507-01D50A 01D50D-01D514 01D516-01D51C ",
      "01D51E-01D539 01D53B-01D53E 01D540-01D544 01D546-01D546 01D54A-01D550 01D552-01D6A5 ",
      "01D6A8-01D6C0 01D6C2-01D6DA 01D6DC-01D6FA 01D6FC-01D714 01D716-01D734 01D736-01D74E ",
      "01D750-01D76E 01D770-01D788 01D78A-01D7A8 01D7AA-01D7C2 01D7C4-01D7CB 01DF00-01DF09 ",
      "01DF0B-01DF1E 01E900-01E943 01F130-01F149 01F150-01F169 01F170-01F189 "
    >>

\* the case-ignorable characters, as ranges of code points
CaseIgnorable ==
    <<
      "000027-000027 00002E-00002E 00003A-00003A 00005E-00005E 000060-000060 0000A8-0000A8 ",
      "0000AD-0000AD 0000AF-0000AF 0000B4-0000B4 0000B7-0000B8 0002B0-00036F 000374-000375 ",
      "00037A-00037A 000384-000385 000387-000387 000483-000489 000559-000559 00055F-00055F ",
      "000591-0005BD 0005BF-0005BF 0005C1-0005C2 0005C4-0005C5 0005C7-0005C7 0005F4-0005F4 ",
      "000600-000605 000610-00061A 00061C-00061C 000640-000640 00064B-00065F 000670-000670 ",
      "0006D6-0006DD 0006DF-0006E8 0006EA-0006ED 00070F-00070F 000711-000711 000730-00074A ",
      "0007A6-0007B0 0007EB-0007F5 0007FA-0007FA 0007FD-0007FD 000816-00082D 000859-00085B ",
      "000888-000888 000890-000891 000898-00089F 0008C9-000902 00093A-00093A 00093C-00093C ",
      "000941-000948 00094D-00094D 000951-000957 000962-000963 000971-000971 000981-000981 ",
      "0009BC-0009BC 0009C1-0009C4 0009CD-0009CD 0009E2-0009E3 0009FE-0009FE 000A01-000A02 ",
      "000A3C-000A3C 000A41-000A42 000A47-000A48 000A4B-000A4D 000A51-000A51 000A70-000A71 ",
      "000A75-000A75 000A81-000A82 000ABC-000ABC 000AC1-000AC5 000AC7-000AC8 000ACD-000ACD ",
      "000AE2-000AE3 000AFA-000AFF 000B01-000B01 000B3C-000B3C 000B3F-000B3F 000B41-000B44 ",
      "000B4D-000B4D 000B55-000B56 000B62-000B63 000B82-000B82 000BC0-000BC0 000BCD-000BCD ",
      "000C00-000C00 000C04-000C04 000C3C-000C3C 000C3E-000C40 000C46-000C48 000C4A-000C4D ",
      "000C55-000C56 000C62-000C63 000C81-000C81 000CBC-000CBC 000CBF-000CBF 000CC6-000CC6 ",
      "000CCC-000CCD 000CE2-000CE3 000D00-000D01 000D3B-000D3C 000D41-000D44 000D4D-000D4D ",
      "000D62-000D63 000D81-000D81 000DCA-000DCA 000DD2-000DD4 000DD6-000DD6 000E31-000E31 ",
      "000E34-000E3A 000E46-000E4E 000EB1-000EB1 000EB4-000EBC 000EC6-000EC6 000EC8-000ECD ",
      "000F18-000F19 000F35-000F35 000F37-000F37 000F39-000F39 000F71-000F7E 000F80-000F84 ",
      "000F86-000F87 000F8D-000F97 000F99-000FBC 000FC6-000FC6 00102D-001030 001032-001037 ",
      "001039-00103A 00103D-00103E 001058-001059 00105E-001060 001071-001074 001082-001082 ",
      "001085-001086 00108D-00108D 00109D-00109D 0010FC-0010FC 00135D-00135F 001712-001714 ",
      "001732-001733 001752-001753 001772-001773 0017B4-0017B5 0017B7-0017BD 0017C6-0017C6 ",
      "0017C9-0017D3 0017D7-0017D7 0017DD-0017DD 00180B-00180F 001843-001843 001885-001886 ",
      "0018A9-0018A9 001920-001922 001927-001928 001932-001932 001939-00193B 001A17-001A18 ",
      "001A1B-001A1B 001A56-001A56 001A58-001A5E 001A60-001A60 001A62-001A62 001A65-001A6C ",
      "001A73-001A7C 001A7F-001A7F 001AA7-001AA7 001AB0-001ACE 001B00-001B03 001B34-001B34 ",
      "001B36-001B3A 001B3C-001B3C 001B42-001B42 001B6B-001B73 001B80-001B81 001BA2-001BA5 ",
      "001BA8-001BA9 001BAB-001BAD 001BE6-001BE6 001BE8-001BE9 001BED-001BED 001BEF-001BF1 ",
      "001C2C-001C33 001C36-001C37 001C78-001C7D 001CD0-001CD2 001CD4-001CE0 001CE2-001CE8 ",
      "001CED-001CED 001CF4-001CF4 001CF8-001CF9 001D2C-001D6A 001D78-001D78 001D9B-001DFF ",
      "001FBD-001FBD 001FBF-001FC1 001FCD-001FCF 001FDD-001FDF 001FED-001FEF 001FFD-001FFE ",
      "00200B-00200F 002018-002019 002024-002024 002027-002027 00202A-00202E 002060-002064 ",
      "002066-00206F 002071-002071 00207F-00207F 002090-00209C 0020D0-0020F0 002C7C-002C7D ",
      "002CEF-002CF1 002D6F-002D6F 002D7F-002D7F 002DE0-002DFF 002E2F-002E2F 003005-003005 ",
      "00302A-00302D 003031-003035 00303B-00303B 003099-00309E 0030FC-0030FE 00A015-00A015 ",
      "00A4F8-00A4FD 00A60C-00A60C 00A66F-00A672 00A674-00A67D 00A67F-00A67F 00A69C-00A69F ",
      "00A6F0-00A6F1 00A700-00A721 00A770-00A770 00A788-00A78A 00A7F2-00A7F4 00A7F8-00A7F9 ",
      "00A802-00A802 00A806-00A806 00A80B-00A80B 00A825-00A826 00A82C-00A82C 00A8C4-00A8C5 ",
      "00A8E0-00A8F1 00A8FF-00A8FF 00A926-00A92D 00A947-00A951 00A980-00A982 00A9B3-00A9B3 ",
      "00A9B6-00A9B9 00A9BC-00A9BD 00A9CF-00A9CF 00A9E5-00A9E6 00AA29-00AA2E 00AA31-00AA32 ",
      "00AA35-00AA36 00AA43-00AA43 00AA4C-00AA4C 00AA70-00AA70 00AA7C-00AA7C 00AAB0-00AAB0 ",
      "00AAB2-00AAB4 00AAB7-00AAB8 00AABE-00AABF 00AAC1-00AAC1 00AADD-00AADD 00AAEC-00AAED ",
      "00AAF3-00AAF4 00AAF6-00AAF6 00AB5B-00AB5F 00AB69-00AB6B 00ABE5-00ABE5 00ABE8-00ABE8 ",
      "00ABED-00ABED 00FB1E-00FB1E 00FBB2-00FBC2 00FE00-00FE0F 00FE13-00FE13 00FE20-00FE2F ",
      "00FE52-00FE52 00FE55-00FE55 00FEFF-00FEFF 00FF07-00FF07 00FF0E-00FF0E 00FF1A-00FF1A ",
      "00FF3E-00FF3E 00FF40-00FF40 00FF70-00FF70 00FF9E-00FF9F 00FFE3-00FFE3 00FFF9-00FFFB ",
      "0101FD-0101FD 0102E0-0102E0 010376-01037A 010780-010785 010787-0107B0 0107B2-0107BA ",
      "010A01-010A03 010A05-010A06 010A0C-010A0F 010A38-010A3A 010A3F-010A3F 010AE5-010AE6 ",
      "010D24-010D27 010EAB-010EAC 010F46-010F50 010F82-010F85 011001-011001 011038-011046 ",
      "011070-011070 011073-011074 01107F-011081 0110B3-0110B6 0110B9-0110BA 0110BD-0110BD ",
      "0110C2-0110C2 0110CD-0110CD 011100-011102 011127-01112B 01112D-011134 011173-011173 ",
      "011180-011181 0111B6-0111BE 0111C9-0111CC 0111CF-0111CF 01122F-011231 011234-011234 ",
      "011236-011237 01123E-01123E 0112DF-0112DF 0112E3-0112EA 011300-011301 01133B-01133C ",
      "011340-011340 011366-01136C 011370-011374 011438-01143F 011442-011444 011446-011446 ",
      "01145E-01145E 0114B3-0114B8 0114BA-0114BA 0114BF-0114C0 0114C2-0114C3 0115B2-0115B5 ",
      "0115BC-0115BD 0115BF-0115C0 0115DC-0115DD 011633-01163A 01163D-01163D 01163F-011640 ",
      "0116AB-0116AB 0116AD-0116AD 0116B0-0116B5 0116B7-0116B7 01171D-01171F 011722-011725 ",
      "011727-01172B 01182F-011837 011839-01183A 01193B-01193C 01193E-01193E 011943-011943 ",
      "0119D4-0119D7 0119DA-0119DB 0119E0-0119E0 011A01-011A0A 011A33-011A38 011A3B-011A3E ",
      "011A47-011A47 011A51-011A56 011A59-011A5B 011A8A-011A96 011A98-011A99 011C30-011C36 ",
      "011C38-011C3D 011C3F-011C3F 011C92-011CA7 011CAA-011CB0 011CB2-011CB3 011CB5-011CB6 ",
      "011D31-011D36 011D3A-011D3A 011D3C-011D3D 011D3F-011D45 011D47-011D47 011D90-011D91 ",
      "011D95-011D95 011D97-011D97 011EF3-011EF4 013430-013438 016AF0-016AF4 016B30-016B36 ",
      "016B40-016B43 016F4F-016F4F 016F8F-016F9F 016FE0-016FE1 016FE3-016FE4 01AFF0-01AFF3 ",
      "01AFF5-01AFFB 01AFFD-01AFFE 01BC9D-01BC9E 01BCA0-01BCA3 01CF00-01CF2D 01CF30-01CF46 ",
      "01D167-01D169 01D173-01D182 01D185-01D18B 01D1AA-01D1AD 01D242-01D244 01DA00-01DA36 ",
      "01DA3B-01DA6C 01DA75-01DA75 01DA84-01DA84 01DA9B-01DA9F 01DAA1-01DAAF 01E000-01E006 ",
      "01E008-01E018 01E01B-01E021 01E023-01E024 01E026-01E02A 01E130-01E13D 01E2AE-01E2AE ",
      "01E2EC-01E2EF 01E8D0-01E8D6 01E944-01E94B 01F3FB-01F3FF 0E0001-0E0001 0E0020-0E007F ",
      "0E0100-0E01EF "
    >>

\* the ASCII whitespace characters that are written as themselves or with an escape
AsciiWhitespace == {" ", "\t", "\n", "\f", "\r"}

\* the characters that str.split(), str.strip() and \s take for whitespace
\* (str.isspace)
Whitespace == AsciiWhitespace \cup OtherWhitespace

\* c.isspace()
IsSpace(c) == IF Plain(c) THEN c \in AsciiWhitespace ELSE c \in OtherWhitespace

\* the ASCII characters from the space to the underscore, and from the small a
\* to the tilde, in the order of their code points
PrintableLow == " !\"#$%&'()*+,-./0123456789:;<=>?@ABCDEFGHIJKLMNOPQRSTUVWXYZ[\\]^_"
PrintableHigh == "abcdefghijklmnopqrstuvwxyz{|}~"

\* the place of the character c in the text, 0 when it is not there
PlaceIn(text, c) ==
    LET Least(at) == IF at = {} THEN 0 ELSE CHOOSE k \in at : \A h \in at : k <= h
    IN  Least({k \in 1..Len(text) : SubSeq(text, k, k) = c})

HexDigits == "0123456789ABCDEF"

\* the number that the hexadecimal digits h write
RECURSIVE HexNumber(_)
HexNumber(h) ==
    IF Len(h) = 0
    THEN 0
    ELSE 16 * HexNumber(SubSeq(h, 1, Len(h) - 1))
         + PlaceIn(HexDigits, SubSeq(h, Len(h), Len(h))) - 1

\* n in hexadecimal digits, width of them or more
RECURSIVE HexText(_, _)
HexText(n, width) ==
    IF n = 0 /\ width <= 0
    THEN ""
    ELSE HexText(n \div 16, width - 1) \o SubSeq(HexDigits, (n % 16) + 1, (n % 16) + 1)

\* ord(c) of a character that is written by its code point
CodePoint(c) == HexNumber(SubSeq(c, 3, Len(c)))

\* the character of code point n, written by its code point
Named(n) == "U+" \o HexText(n, 4)

\* ord(c) of every ASCII character that is written as itself
AsciiOrd ==
    [c \in AsciiWhitespace
            \cup {SubSeq(PrintableLow, k, k) : k \in 1..Len(PrintableLow)}
            \cup {SubSeq(PrintableHigh, k, k) : k \in 1..Len(PrintableHigh)} |->
        CASE c = "\t" -> 9
          [] c = "\n" -> 10
          [] c = "\f" -> 12
          [] c = "\r" -> 13
          [] PlaceIn(PrintableHigh, c) # 0 -> 96 + PlaceIn(PrintableHigh, c)
          [] OTHER -> 31 + PlaceIn(PrintableLow, c)]

\* ord(c)
Ord(c) == IF Plain(c) THEN AsciiOrd[c] ELSE CodePoint(c)

\* chr(n)
Chr(n) ==
    CASE n = 9 -> "\t"
      [] n = 10 -> "\n"
      [] n = 12 -> "\f"
      [] n = 13 -> "\r"
      [] n >= 32 /\ n <= 95 /\ n # 92 -> SubSeq(PrintableLow, n - 31, n - 31)
      [] n >= 97 /\ n <= 126 -> SubSeq(PrintableHigh, n - 96, n - 96)
      [] OTHER -> Named(n)

\* the code point n is in one of the ranges of the table
InRanges(table, n) ==
    \E r \in 1..Len(table) : \E k \in 0..((Len(table[r]) \div 14) - 1) :
        /\ HexNumber(SubSeq(table[r], 14 * k + 1, 14 * k + 6)) <= n
        /\ n <= HexNumber(SubSeq(table[r], 14 * k + 8, 14 * k + 13))

\* ord("0"), ord("9"), ord("A"), ord("Z"), ord("a") and ord("z")
OrdZero == AsciiOrd["0"]
OrdNine == AsciiOrd["9"]
OrdCapitalA == AsciiOrd["A"]
OrdCapitalZ == AsciiOrd["Z"]
OrdSmallA == AsciiOrd["a"]
OrdSmallZ == AsciiOrd["z"]

\* \d matches the character c
IsDigit(c) ==
    IF Plain(c)
    THEN AsciiOrd[c] \in OrdZero..OrdNine
    ELSE InRanges(Digits, CodePoint(c))

\* the k-th run of a row of LowerRuns, counted from 0
RunAt(row, k) ==
    [first |-> HexNumber(SubSeq(row, 23 * k + 1, 23 * k + 6)),
     last |-> HexNumber(SubSeq(row, 23 * k + 8, 23 * k + 13)),
     step |-> HexNumber(SubSeq(row, 23 * k + 15, 23 * k + 15)),
     to |-> HexNumber(SubSeq(row, 23 * k + 17, 23 * k + 22))]

\* the code point n is one of the run
InRun(run, n) ==
    /\ run.first <= n
    /\ n <= run.last
    /\ (n - run.first) % run.step = 0

\* the runs of LowerRuns
AllLowerRuns ==
    UNION {{RunAt(LowerRuns[r], k) : k \in 0..((Len(LowerRuns[r]) \div 23) - 1)} :
           r \in 1..Len(LowerRuns)}

\* where the runs mine, those that hold the code point n, move it to
MovedBy(n, mine) ==
    IF mine = {}
    THEN n
    ELSE (CHOOSE run \in mine : TRUE).to + (n - (CHOOSE run \in mine : TRUE).first)

\* the code point of the one character that str.lower() makes of the character
\* of code point n, for the characters of LowerRuns and for those that
\* str.lower() leaves alone
LowerPoint(n) == MovedBy(n, {run \in AllLowerRuns : InRun(run, n)})

CapitalSigma == "U+03A3"
FinalSmallSigma == "U+03C2"
DottedCapitalI == "U+0130"
CombiningDotAbove == "U+0307"
KelvinSign == "U+212A"

\* the place i is in the final position of a word; kept: the places other than
\* i whose character is not case-ignorable, cased: those whose character is a
\* cased letter
FinalSigmaBetween(i, kept, cased) ==
    LET before == {j \in kept : j < i}
        after == {j \in kept : j > i}
    IN  /\ before # {}
        /\ (CHOOSE j \in before : \A h \in before : h <= j) \in cased
        /\ after # {} => (CHOOSE j \in after : \A h \in after : j <= h) \notin cased

\* points: the code points of the characters of a text
FinalSigmaAt(points, i) ==
    FinalSigmaBetween(i,
        {j \in 1..Len(points) : j # i /\ ~InRanges(CaseIgnorable, points[j])},
        {j \in 1..Len(points) : InRanges(CasedLetters, points[j])})

\* the capital sigma at place i is in the final position of a word: the
\* nearest character before it that is not case-ignorable is cased, and the
\* nearest one after it, if any, is not
FinalSigma(s, i) == FinalSigmaAt([j \in 1..Len(s) |-> Ord(s[j])], i)

\* the code point of n.lower() for an ASCII character
LowerAsciiPoint(n) ==
    IF n \in OrdCapitalA..OrdCapitalZ THEN n + OrdSmallA - OrdCapitalA ELSE n

\* what str.lower() makes of the character at place i: one character, or
\* more than one
LowerAt(s, i) ==
    IF Plain(s[i]) THEN <<Chr(LowerAsciiPoint(AsciiOrd[s[i]]))>>
    ELSE IF s[i] = CapitalSigma /\ FinalSigma(s, i) THEN <<FinalSmallSigma>>
    ELSE IF s[i] = DottedCapitalI THEN <<"i", CombiningDotAbove>>
    ELSE IF s[i] = KelvinSign THEN <<"k">>
    ELSE <<Named(LowerPoint(CodePoint(s[i])))>>

\* c.lower() for a str of one character
LowerChar(c) == LowerAt(<<c>>, 1)

\* c.lower() != c
IsUpper(c) == LowerChar(c) # <<c>>

\* the lower case of the characters lo..hi of s, in order
RECURSIVE LowerRange(_, _, _)
LowerRange(s, lo, hi) ==
    IF lo > hi
    THEN <<>>
    ELSE IF lo = hi
         THEN LowerAt(s, lo)
         ELSE LET mid == (lo + hi) \div 2
              IN  LowerRange(s, lo, mid) \o LowerRange(s, mid + 1, hi)

\* str.lower()
LowerStr(s) == LowerRange(s, 1, Len(s))

\* the items of vals at the indices of keep within lo..hi, in order
RECURSIVE Gather(_, _, _, _)
Gather(vals, keep, lo, hi) ==
    IF lo > hi
    THEN <<>>
    ELSE IF lo = hi
         THEN IF lo \in keep THEN <<vals[lo]>> ELSE <<>>
         ELSE LET mid == (lo + hi) \div 2
              IN  Gather(vals, keep, lo, mid) \o Gather(vals, keep, mid + 1, hi)

\* the places of s that hold no whitespace
WordPlaces(s) == {i \in 1..Len(s) : ~IsSpace(s[i])}

\* the words of s joined by one space; word: the places of s in a word
JoinWords(s, word) ==
    LET gap == {i \in 2..Len(s) : /\ i \notin word
                                  /\ (i - 1) \in word
                                  /\ \E j \in word : j > i}
    IN  Gather([i \in 1..Len(s) |-> IF i \in word THEN s[i] ELSE " "],
               word \cup gap, 1, Len(s))

\* " ".join(s.split()): every run of whitespace between two words becomes one
\* space, and the whitespace at both ends goes
CollapseWhitespace(s) == JoinWords(s, WordPlaces(s))

\* str.replace(pat, " ") for a non-empty pat no occurrence of which overlaps
\* another (true of every string of RemovedPunctuation): each occurrence
\* becomes one space
ReplaceBySpace(s, pat) ==
    LET n == Len(s)
        m == Len(pat)
        found == {i \in 1..(n - m + 1) : SubSeq(s, i, i + m - 1) = pat}
        inside == {i \in 1..n : \E f \in found : f < i /\ i < f + m}
    IN  IF found = {}
        THEN s
        ELSE Gather([i \in 1..n |-> IF i \in found THEN " " ELSE s[i]],
                    (1..n) \ inside, 1, n)

\* s from its first word to its last; word: the places of s in a word
StripTo(s, word) ==
    IF word = {}
    THEN <<>>
    ELSE SubSeq(s, CHOOSE i \in word : \A j \in word : i <= j,
                   CHOOSE i \in word : \A j \in word : i >= j)

\* str.strip()
Strip(s) == StripTo(s, WordPlaces(s))

\* s[:n]
Prefix(s, n) == SubSeq(s, 1, IF Len(s) < n THEN Len(s) ELSE n)

---------------------------------------------------------------------------
(* analyze_citations.py: normalize_title *)

\* the length the normalised title is cut to
TitleKeyMaxLen == 150

\* the strings replaced by a space, in the order of the source's list; the third
\* and fourth are three characters long in the source file, and a character
\* outside ASCII is written here by its code point
RemovedPunctuation ==
    << <<":">>, <<"-">>, <<"U+00E2", "U+20AC", "U+201C">>,
       <<"U+00E2", "U+20AC", "U+201D">>,
       <<"'">>, <<"'">>, <<"\"">>, <<"\"">>, <<"\"">> >>

RECURSIVE ReplaceAll(_, _, _)
ReplaceAll(s, pats, i) ==
    IF i > Len(pats) THEN s ELSE ReplaceAll(ReplaceBySpace(s, pats[i]), pats, i + 1)

NormalizeTitle(t) ==
    IF ~Truthy(t)
    THEN Str(<<>>)
    ELSE IF t.t # "str"
         THEN Raised("AttributeError")
         ELSE Str(Prefix(Strip(CollapseWhitespace(
                  ReplaceAll(CollapseWhitespace(LowerStr(t.s)), RemovedPunctuation, 1))),
                  TitleKeyMaxLen))

---------------------------------------------------------------------------
(* analyze_citations.py: extract_arxiv_id_from_doi and get_paper_key *)

ArxivDoiPrefix == <<"1", "0", ".", "4", "8", "5", "5", "0", "/", "a", "r", "x", "i", "v", ".">>
TitlePrefix == <<"t", "i", "t", "l", "e", ":">>
ArxivPrefix == <<"a", "r", "x", "i", "v", ":">>
DoiPrefix == <<"d", "o", "i", ":">>
OpenAlexPrefix == <<"o", "p", "e", "n", "a", "l", "e", "x", ":">>
S2Prefix == <<"s", "2", ":">>

\* the end of the maximal run of digits of s that starts at i (i - 1 when
\* none); digits: the places of s that hold a digit
DigitRunEnd(s, digits, i) ==
    LET Least(stop) == CHOOSE j \in stop : \A k \in stop : j <= k
    IN  Least({j \in i..(Len(s) + 1) : j \notin digits}) - 1

\* whether 10\.48550/arxiv\.(\d+\.\d+) matches s at position i
ArxivDoiMatchesAt(s, digits, i) ==
    LET p == i + Len(ArxivDoiPrefix)
        \* e1: the end of the first run of digits
        Rest(e1) ==
            /\ e1 >= p
            /\ e1 + 1 <= Len(s)
            /\ s[e1 + 1] = "."
            /\ DigitRunEnd(s, digits, e1 + 2) >= e1 + 2
    IN  /\ p - 1 <= Len(s)
        /\ SubSeq(s, i, p - 1) = ArxivDoiPrefix
        /\ Rest(DigitRunEnd(s, digits, p))

\* group 1 of the match at position i
ArxivDoiGroup(s, digits, i) ==
    LET p == i + Len(ArxivDoiPrefix)
    IN  SubSeq(s, p, DigitRunEnd(s, digits, DigitRunEnd(s, digits, p) + 2))

\* group 1 of the first match; hits: the places of s where the pattern matches
ArxivDoiFirstGroup(s, digits, hits) ==
    IF hits = {}
    THEN None
    ELSE Str(ArxivDoiGroup(s, digits, CHOOSE i \in hits : \A j \in hits : i <= j))

\* re.search of the pattern in s; digits: the places of s that hold a digit
ArxivDoiSearchAmong(s, digits) ==
    ArxivDoiFirstGroup(s, digits, {i \in 1..Len(s) : ArxivDoiMatchesAt(s, digits, i)})

\* re.search(r"10\.48550/arxiv\.(\d+\.\d+)", s): group 1 of the match, or None
ArxivDoiSearch(s) == ArxivDoiSearchAmong(s, {i \in 1..Len(s) : IsDigit(s[i])})

ExtractArxivIdFromDoi(doi) ==
    IF ~Truthy(doi)
    THEN None
    ELSE IF doi.t # "str"
         THEN Raised("AttributeError")
         ELSE ArxivDoiSearch(LowerStr(doi.s))

\* f"<prefix>{value.lower()}"
LowerKey(prefix, value) ==
    IF value.t # "str" THEN Raised("AttributeError") ELSE Str(prefix \o LowerStr(value.s))

\* the chain of if value: return f"<prefix>{value.lower()}" over the
\* identifiers ids, each a prefix and a value: the key of the first one whose
\* value is truthy, None when there is none
FirstIdentifierKey(ids) ==
    LET truthy == {i \in 1..Len(ids) : Truthy(ids[i][2])}
    IN  IF truthy = {}
        THEN None
        ELSE LowerKey(ids[CHOOSE i \in truthy : \A j \in truthy : i <= j][1],
                      ids[CHOOSE i \in truthy : \A j \in truthy : i <= j][2])

\* the key that follows arxiv_from_doi, what extract_arxiv_id_from_doi gave:
\* lines 73-88, with the identifiers ids of the ifs after the first
IdentifierKeyFrom(arxiv_from_doi, ids) ==
    IF arxiv_from_doi.t = "raise" THEN arxiv_from_doi
    ELSE IF Truthy(arxiv_from_doi) THEN Str(ArxivPrefix \o arxiv_from_doi.s)
    ELSE FirstIdentifierKey(ids)

\* the part of get_paper_key after the title: lines 68-88
IdentifierKey(p) ==
    IdentifierKeyFrom(ExtractArxivIdFromDoi(Get(p, "doi", Str(<<>>))),
                      << <<ArxivPrefix, Get(p, "arxiv_id", Str(<<>>))>>,
                         <<DoiPrefix, Get(p, "doi", Str(<<>>))>>,
                         <<OpenAlexPrefix, Get(p, "openalex_id", None)>>,
                         <<S2Prefix, Get(p, "s2_id", None)>> >>)

\* the key that follows normal, the normalised title: lines 62-65, and
\* otherwise the key of the lines after them
TitleKeyOr(normal, otherwise) ==
    IF normal.t = "raise" THEN normal
    ELSE IF Truthy(normal) THEN Str(TitlePrefix \o normal.s)
    ELSE otherwise

\* normalize_title(title) under if title: lines 62-63
NormalizedIfTruthy(t) == IF Truthy(t) THEN NormalizeTitle(t) ELSE Str(<<>>)

\* get_paper_key with the DOI tried before the explicit arXiv id
GetPaperKeyDoiFirst(p) ==
    TitleKeyOr(NormalizedIfTruthy(Get(p, "title", Str(<<>>))),
               IdentifierKeyFrom(ExtractArxivIdFromDoi(Get(p, "doi", Str(<<>>))),
                                 << <<DoiPrefix, Get(p, "doi", Str(<<>>))>>,
                                    <<ArxivPrefix, Get(p, "arxiv_id", Str(<<>>))>>,
                                    <<OpenAlexPrefix, Get(p, "openalex_id", None)>>,
                                    <<S2Prefix, Get(p, "s2_id", None)>> >>))

GetPaperKey(p) ==
    TitleKeyOr(NormalizedIfTruthy(Get(p, "title", Str(<<>>))), IdentifierKey(p))

---------------------------------------------------------------------------
(* Paper records: a dict is a function from the member names to values *)

Fields == {"title", "doi", "arxiv_id", "openalex_id", "s2_id",
           "authors", "year", "venue", "source"}

EmptyPaper == [f \in Fields |-> Absent]

TitleOnly(chars) == [EmptyPaper EXCEPT !["title"] = Str(chars)]

---------------------------------------------------------------------------
(* The input document of analyze_citations.py and visualize_citations.py *)

\* the "metadata" member of an input entry: null, or a dict
MetaNone == [kind |-> "none", rec |-> EmptyPaper]
MetaDict(p) == [kind |-> "dict", rec |-> p]

\* truth value of paper.get("metadata"): a dict with at least one member
MetaTruthy(m) == m.kind = "dict" /\ \E f \in Fields : m.rec[f].t # "absent"

\* data.get("papers", [])
PapersOf(d) == IF d.has_papers THEN d.papers ELSE <<>>

---------------------------------------------------------------------------
(* analyze_citations.py: get_seed_paper_label *)

LabelMaxLen == 60
LabelCutLen == 57
UnknownTitle == <<"U", "n", "k", "n", "o", "w", "n">>
Ellipsis == <<".", ".", ".">>

\* the label of the title t: lines 95-97
LabelOf(t) ==
    CASE t.t = "str" ->
             IF Len(t.s) > LabelMaxLen
             THEN Str(Prefix(t.s, LabelCutLen) \o Ellipsis)
             ELSE t
      [] t.t = "list" ->
             \* title[:57] + "..." is a list plus a str
             IF Len(t.l) > LabelMaxLen THEN Raised("TypeError") ELSE t
      [] OTHER ->
             \* len(title) of an int
             Raised("TypeError")

\* got or "Unknown": line 94
OrUnknown(got) == IF Truthy(got) THEN got ELSE Str(UnknownTitle)

GetSeedPaperLabel(entry) ==
    LabelOf(OrUnknown(Get(IF MetaTruthy(entry.metadata)
                          THEN entry.metadata.rec
                          ELSE EmptyPaper,
                          "title", Str(UnknownTitle))))

---------------------------------------------------------------------------
(* Python's order of str, and list.sort with the key (-count, title) *)

\* a < b for two str
StrLess(a, b) ==
    LET n == IF Len(a) < Len(b) THEN Len(a) ELSE Len(b)
        diff == {i \in 1..n : a[i] # b[i]}
    IN  IF diff = {}
        THEN Len(a) < Len(b)
        ELSE LET d == CHOOSE i \in diff : \A j \in diff : i <= j
             IN  Ord(a[d]) < Ord(b[d])

\* the comparison of two sort keys raises TypeError: the counts are equal and the
\* titles are different objects that are not both str (None against a str)
KeysIncomparable(c1, t1, c2, t2) ==
    c1 = c2 /\ t1 # t2 /\ ~(t1.t = "str" /\ t2.t = "str")

\* (-c1, t1) < (-c2, t2)
KeyLess(c1, t1, c2, t2) ==
    c1 > c2 \/ (c1 = c2 /\ t1 # t2 /\ StrLess(t1.s, t2.s))

SortRaises(counts, titles) ==
    \E i, j \in 1..Len(counts) : KeysIncomparable(counts[i], titles[i], counts[j], titles[j])

\* item j comes before item i in the sorted list
SortsBefore(counts, titles, j, i) ==
    \/ KeyLess(counts[j], titles[j], counts[i], titles[i])
    \/ (~KeyLess(counts[i], titles[i], counts[j], titles[j]) /\ j < i)

\* list.sort is stable: the items with equal keys keep their order
SortedOrder(counts, titles) ==
    [k \in 1..Len(counts) |->
        CHOOSE i \in 1..Len(counts) :
            Cardinality({j \in 1..Len(counts) : SortsBefore(counts, titles, j, i)}) = k - 1]

---------------------------------------------------------------------------
(* analyze_citations.py: analyze_citations *)

\* the first status of a sequence that is not "ok"
FirstError(statuses) ==
    LET bad == {i \in 1..Len(statuses) : statuses[i] # "ok"}
    IN  IF bad = {} THEN "ok" ELSE statuses[CHOOSE i \in bad : \A j \in bad : i <= j]

\* the key of an input entry's metadata: lines 114-117 (None without metadata)
SeedKeyOf(entry) ==
    IF MetaTruthy(entry.metadata) THEN GetPaperKey(entry.metadata.rec) ELSE None

\* the keys of keys that are truthy
TruthyKeys(keys) == {keys[i].s : i \in {j \in 1..Len(keys) : Truthy(keys[j])}}

\* seed_keys: lines 111-118
SeedKeys(papers) == TruthyKeys([i \in 1..Len(papers) |-> SeedKeyOf(papers[i])])

\* how the first loop ends at an entry of key k
SeedStatus(entry, k) ==
    IF k.t = "raise" THEN k.s[1]
    ELSE IF Truthy(k) /\ entry.input_doi.t = "absent" THEN "KeyError"
    ELSE "ok"

\* how the first loop ends: get_paper_key may raise, and paper["input_doi"]
\* raises KeyError for an entry that has a key and no input_doi
SeedLoopStatus(papers) ==
    FirstError([i \in 1..Len(papers) |-> SeedStatus(papers[i], SeedKeyOf(papers[i]))])

\* paper.get("references", []) or paper.get("cited_by", [])
RelationOf(entry, rel) == IF rel = "references" THEN entry.references ELSE entry.cited_by

\* the lists of every entry are visited, with or without metadata
RECURSIVE OccurrencesOfAll(_, _, _)
OccurrencesOfAll(papers, rel, i) ==
    IF i > Len(papers)
    THEN <<>>
    ELSE [j \in 1..Len(RelationOf(papers[i], rel)) |->
             [seed |-> i, rec |-> RelationOf(papers[i], rel)[j]]]
         \o OccurrencesOfAll(papers, rel, i + 1)

\* the records the two nested loops visit, in order: lines 134-145
RECURSIVE OccurrencesFrom(_, _, _)
OccurrencesFrom(papers, rel, i) ==
    IF i > Len(papers)
    THEN <<>>
    ELSE LET list == RelationOf(papers[i], rel)
             here == IF MetaTruthy(papers[i].metadata)
                     THEN [j \in 1..Len(list) |-> [seed |-> i, rec |-> list[j]]]
                     ELSE <<>>
         IN  here \o OccurrencesFrom(papers, rel, i + 1)

\* the seed paper that an occurrence appends: lines 140-141 and 152-154
SeedOf(entry) ==
    [doi |-> Get(entry, "input_doi", Str(<<>>)), title |-> GetSeedPaperLabel(entry)]

\* the index after an occurrence of key k, every occurrence replacing the
\* stored record
IndexAfterLast(index, k, rec, seed) ==
    LET at == {i \in 1..Len(index) : index[i].key = k.s}
    IN  IF ~Truthy(k)
        THEN index
        ELSE IF at = {}
             THEN Append(index, [key |-> k.s, metadata |-> rec, seeds |-> <<seed>>])
             ELSE [index EXCEPT ![CHOOSE i \in at : TRUE] =
                      [@ EXCEPT !.metadata = rec, !.seeds = Append(@, seed)]]

\* the index of which every occurrence replaces the stored record
RECURSIVE IndexFromLast(_, _, _, _)
IndexFromLast(papers, occs, n, index) ==
    IF n > Len(occs)
    THEN index
    ELSE IndexFromLast(papers, occs, n + 1,
             IndexAfterLast(index, GetPaperKey(occs[n].rec), occs[n].rec,
                            SeedOf(papers[occs[n].seed])))

\* the index after an occurrence of key k, rec its record and seed the seed
\* paper of its entry: lines 144-154
IndexAfter(index, k, rec, seed) ==
    LET at == {i \in 1..Len(index) : index[i].key = k.s}
    IN  IF ~Truthy(k)
        THEN index
        ELSE IF at = {}
             THEN Append(index, [key |-> k.s, metadata |-> rec, seeds |-> <<seed>>])
             ELSE [index EXCEPT ![CHOOSE i \in at : TRUE].seeds = Append(@, seed)]

\* the index after the occurrences from the n-th on: lines 143-154.  An entry
\* of the index is made when its key is first seen, with a copy of that record,
\* and every occurrence appends the seed paper to its list
RECURSIVE IndexFrom(_, _, _, _)
IndexFrom(papers, occs, n, index) ==
    IF n > Len(occs)
    THEN index
    ELSE IndexFrom(papers, occs, n + 1,
             IndexAfter(index, GetPaperKey(occs[n].rec), occs[n].rec,
                        SeedOf(papers[occs[n].seed])))

BuildIndex(papers, rel) == IndexFrom(papers, OccurrencesFrom(papers, rel, 1), 1, <<>>)

\* how get_paper_key ends: the exception of the key k, or "ok"
KeyStatus(k) == IF k.t = "raise" THEN k.s[1] ELSE "ok"

\* how the inner loop ends after the label of its entry
StatusAfterLabel(label, list) ==
    IF label.t = "raise"
    THEN label.s[1]
    ELSE FirstError([j \in 1..Len(list) |-> KeyStatus(GetPaperKey(list[j]))])

\* how a relation loop ends: for an entry that is visited,
\* get_seed_paper_label may raise, and then get_paper_key on a record of the
\* list
RelationLoopStatus(papers, rel) ==
    FirstError([i \in 1..Len(papers) |->
        IF ~MetaTruthy(papers[i].metadata)
        THEN "ok"
        ELSE StatusAfterLabel(GetSeedPaperLabel(papers[i]), RelationOf(papers[i], rel))])

\* c_in == k_cited in place of c_in >= k_cited
MeetsThresholdExactly(c, k) == c = k

\* c_in >= k_cited: line 164
MeetsThreshold(c, k) == c >= k

\* the seed papers are not skipped
SkippedNever(k, seed_keys) == FALSE

\* if ref_key in seed_keys: continue: lines 161-162
Skipped(k, seed_keys) == k \in seed_keys

\* the entry appended for an index entry: lines 166-179 and 224-237
ResultEntry(ix, seed_keys, rel) ==
    LET metadata == ix.metadata
        base == [key |-> Str(ix.key),
                 doi |-> Get(metadata, "doi", Str(<<>>)),
                 arxiv_id |-> Get(metadata, "arxiv_id", Str(<<>>)),
                 title |-> Get(metadata, "title", Str(<<>>)),
                 authors |-> Get(metadata, "authors", ListVal(<<>>)),
                 year |-> Get(metadata, "year", None),
                 venue |-> Get(metadata, "venue", Str(<<>>)),
                 is_in_seed_set |-> ix.key \in seed_keys]
    IN  IF rel = "references"
        THEN base @@ [c_in |-> Len(ix.seeds), cited_by_seed_papers |-> ix.seeds]
        ELSE base @@ [c_out |-> Len(ix.seeds), cites_seed_papers |-> ix.seeds]

\* the count of a result entry
CountOf(e) == IF "c_in" \in DOMAIN e THEN e.c_in ELSE e.c_out

\* the filter loop: lines 158-179 and 216-237
FilterIndex(index, seed_keys, k, rel) ==
    LET keep(ix) == ~Skipped(ix.key, seed_keys) /\ MeetsThreshold(Len(ix.seeds), k)
        kept == SelectSeq(index, keep)
    IN  [i \in 1..Len(kept) |-> ResultEntry(kept[i], seed_keys, rel)]

\* list.sort(key=lambda x: (-x["c_in"], x["title"])): lines 182 and 240
SortStatus(entries) ==
    IF SortRaises([i \in 1..Len(entries) |-> CountOf(entries[i])],
                  [i \in 1..Len(entries) |-> entries[i].title])
    THEN "TypeError"
    ELSE "ok"

\* the entries in the order order
Permuted(entries, order) == [k \in 1..Len(entries) |-> entries[order[k]]]

SortEntries(entries) ==
    Permuted(entries, SortedOrder([i \in 1..Len(entries) |-> CountOf(entries[i])],
                                  [i \in 1..Len(entries) |-> entries[i].title]))

\* what analyze_citations returns or raises; cited, citing: the two lists
\* before they are sorted
AnalysisResult(status, k_cited, k_citing, cited, citing) ==
    IF status = "ok"
    THEN [status |-> "ok", k_cited |-> k_cited, k_citing |-> k_citing,
          cited_papers |-> SortEntries(cited), citing_papers |-> SortEntries(citing)]
    ELSE [status |-> status, k_cited |-> k_cited, k_citing |-> k_citing,
          cited_papers |-> <<>>, citing_papers |-> <<>>]

\* analyze_citations from the two filtered lists on: the statements in the
\* order in which they may raise
AnalysisOfLists(papers, k_cited, k_citing, cited, citing) ==
    AnalysisResult(FirstError(<< SeedLoopStatus(papers),
                                 RelationLoopStatus(papers, "references"),
                                 SortStatus(cited),
                                 RelationLoopStatus(papers, "cited_by"),
                                 SortStatus(citing) >>),
                   k_cited, k_citing, cited, citing)

\* analyze_citations after seed_keys is built: lines 127-240
AnalysisOfPapers(papers, seed_keys, k_cited, k_citing) ==
    AnalysisOfLists(papers, k_cited, k_citing,
                    FilterIndex(BuildIndex(papers, "references"), seed_keys,
                                k_cited, "references"),
                    FilterIndex(BuildIndex(papers, "cited_by"), seed_keys,
                                k_citing, "cited_by"))

\* analyze_citations(data, k_cited, k_citing): the two lists it returns, or the
\* exception that leaves it
AnalyzeCitations(d, k_cited, k_citing) ==
    AnalysisOfPapers(PapersOf(d), SeedKeys(PapersOf(d)), k_cited, k_citing)

---------------------------------------------------------------------------
(* visualize_citations.py: get_paper_key and analyze_for_graph *)

\* the length the lowercased title is cut to in a key
VizTitleKeyMaxLen == 100

\* the key of the title, for a record none of whose identifiers is truthy
VizTitleKey(p) ==
    IF Truthy(Get(p, "title", None))
    THEN IF p["title"].t # "str"
         THEN Raised("AttributeError")
         ELSE Str(TitlePrefix \o Prefix(LowerStr(p["title"].s), VizTitleKeyMaxLen))
    ELSE None

\* k, the key of an identifier, and otherwise the key otherwise
KeyOr(k, otherwise) == IF k # None THEN k ELSE otherwise

VizGetPaperKey(p) ==
    KeyOr(FirstIdentifierKey(<< <<DoiPrefix, Get(p, "doi", None)>>,
                                <<ArxivPrefix, Get(p, "arxiv_id", None)>>,
                                <<OpenAlexPrefix, Get(p, "openalex_id", None)>>,
                                <<S2Prefix, Get(p, "s2_id", None)>> >>),
          VizTitleKey(p))

\* the key of an input entry's metadata: lines 61-62 and 87
VizSeedKeyOf(entry) ==
    IF MetaTruthy(entry.metadata) THEN VizGetPaperKey(entry.metadata.rec) ELSE None

\* the value stored for an entry of key k: lines 64-71
VizSeedNode(entry, k) ==
    [key |-> k,
     doi |-> entry.input_doi,
     title |-> Get(entry.metadata.rec, "title", Str(UnknownTitle)),
     authors |-> Get(entry.metadata.rec, "authors", ListVal(<<>>)),
     year |-> Get(entry.metadata.rec, "year", None),
     venue |-> Get(entry.metadata.rec, "venue", Str(<<>>))]

\* seed_papers for the entries papers of keys keys
VizSeedPapersOf(papers, keys) ==
    LET keyed == {i \in 1..Len(papers) : Truthy(keys[i])}
        first == {i \in keyed : \A j \in keyed : keys[j] = keys[i] => i <= j}
        last(i) == CHOOSE j \in keyed :
                       /\ keys[j] = keys[i]
                       /\ \A h \in keyed : keys[h] = keys[i] => h <= j
    IN  Gather([i \in 1..Len(papers) |->
                   IF i \in keyed
                   THEN VizSeedNode(papers[last(i)], keys[i])
                   ELSE VizSeedNode(papers[i], keys[i])],
               first, 1, Len(papers))

\* seed_papers, a dict: a key keeps the place of its first entry and the
\* values of its last: lines 59-71
VizSeedPapers(papers) ==
    VizSeedPapersOf(papers, [i \in 1..Len(papers) |-> VizSeedKeyOf(papers[i])])

VizSeedLoopStatus(papers) ==
    FirstError([i \in 1..Len(papers) |-> SeedStatus(papers[i], VizSeedKeyOf(papers[i]))])

\* the occurrences of the relation in the list of entry i
OccurrencesAt(list, i) == [j \in 1..Len(list) |-> [seed |-> i, rec |-> list[j]]]

\* the records the loop visits for one relation, in order: the entries without
\* a seed key are skipped: lines 86-95 and 104-107
RECURSIVE VizOccurrencesFrom(_, _, _)
VizOccurrencesFrom(papers, rel, i) ==
    IF i > Len(papers)
    THEN <<>>
    ELSE (IF Truthy(VizSeedKeyOf(papers[i]))
          THEN OccurrencesAt(RelationOf(papers[i], rel), i)
          ELSE <<>>)
         \o VizOccurrencesFrom(papers, rel, i + 1)

\* the index that keeps one item for every occurrence, not one for every seed
\* key
\* the index after an occurrence of key k, rec its record and seed what is
\* added to the seed papers of its entry: lines 94-100 and 106-112
VizIndexAfter(index, k, rec, seed) ==
    LET at == {i \in 1..Len(index) : index[i].key = k.s}
    IN  IF ~Truthy(k)
        THEN index
        ELSE IF at = {}
             THEN Append(index, [key |-> k.s, metadata |-> rec, seeds |-> {seed}])
             ELSE [index EXCEPT ![CHOOSE i \in at : TRUE].seeds = @ \cup {seed}]

RECURSIVE VizIndexFromPerRecord(_, _, _, _)
VizIndexFromPerRecord(papers, occs, n, index) ==
    IF n > Len(occs)
    THEN index
    ELSE VizIndexFromPerRecord(papers, occs, n + 1,
             VizIndexAfter(index, VizGetPaperKey(occs[n].rec), occs[n].rec,
                           <<VizSeedKeyOf(papers[occs[n].seed]).s, n>>))

\* the index after the occurrences from the n-th on; the seed papers of an
\* entry are a set of seed keys: lines 93-100 and 105-112
RECURSIVE VizIndexFrom(_, _, _, _)
VizIndexFrom(papers, occs, n, index) ==
    IF n > Len(occs)
    THEN index
    ELSE VizIndexFrom(papers, occs, n + 1,
             VizIndexAfter(index, VizGetPaperKey(occs[n].rec), occs[n].rec,
                           VizSeedKeyOf(papers[occs[n].seed]).s))

VizBuildIndex(papers, rel) ==
    VizIndexFrom(papers, VizOccurrencesFrom(papers, rel, 1), 1, <<>>)

\* how the loops over the lists of one entry end
VizListStatus(list) ==
    FirstError([j \in 1..Len(list) |-> KeyStatus(VizGetPaperKey(list[j]))])

\* how the main loop ends: an entry's references are read before its cited_by
VizLoopStatus(papers) ==
    FirstError([i \in 1..Len(papers) |->
        IF ~Truthy(VizSeedKeyOf(papers[i]))
        THEN "ok"
        ELSE VizListStatus(papers[i].references \o papers[i].cited_by)])

\* (seed_key, ref_key, "cites") and (citing_key, seed_key, "cites")
VizEdge(src, tgt, rel) == <<src, tgt, "cites">>

\* the edges of the occurrences occs of keys keys; seed_key: the key of every
\* entry
VizEdgesOfKeys(seed_key, occs, keys, rel) ==
    {IF rel = "references"
     THEN VizEdge(seed_key[occs[n].seed].s, keys[n].s, rel)
     ELSE VizEdge(keys[n].s, seed_key[occs[n].seed].s, rel) :
        n \in {m \in 1..Len(occs) : Truthy(keys[m])}}

\* the edges of one relation
VizEdgesOf(seed_key, occs, rel) ==
    VizEdgesOfKeys(seed_key, occs, [n \in 1..Len(occs) |-> VizGetPaperKey(occs[n].rec)], rel)

\* the edges of the relations rels
VizEdgesAmong(papers, seed_key, rels) ==
    UNION {VizEdgesOf(seed_key, VizOccurrencesFrom(papers, rel, 1), rel) : rel \in rels}

\* edges, as the set of its items: lines 84, 101 and 113
VizEdges(papers) ==
    VizEdgesAmong(papers, [i \in 1..Len(papers) |-> VizSeedKeyOf(papers[i])],
                  {"references", "cited_by"})

\* the node made for an index entry: lines 121-128 and 135-142
VizNode(ix, rel) ==
    LET metadata == ix.metadata
        base == [key |-> Str(ix.key),
                 title |-> Get(metadata, "title", Str(UnknownTitle)),
                 authors |-> Get(metadata, "authors", ListVal(<<>>)),
                 year |-> Get(metadata, "year", None),
                 venue |-> Get(metadata, "venue", Str(<<>>))]
    IN  IF rel = "references"
        THEN base @@ [c_in |-> Cardinality(ix.seeds)]
        ELSE base @@ [c_out |-> Cardinality(ix.seeds)]

\* the filter without the test of the seed papers
VizFilterIndexWithSeeds(index, seed_keys, k, rel) ==
    LET keep(ix) == Cardinality(ix.seeds) >= k
        kept == SelectSeq(index, keep)
    IN  [i \in 1..Len(kept) |-> VizNode(kept[i], rel)]

\* the filter loops: lines 116-142
VizFilterIndex(index, seed_keys, k, rel) ==
    LET keep(ix) == Cardinality(ix.seeds) >= k /\ ix.key \notin seed_keys
        kept == SelectSeq(index, keep)
    IN  [i \in 1..Len(kept) |-> VizNode(kept[i], rel)]

\* the keys of a node collection
NodeKeys(nodes) == {nodes[i].key.s : i \in 1..Len(nodes)}

\* every edge is kept, whatever its ends
VizRelevantAlways(e, keys) == TRUE

\* src in all_relevant_keys and tgt in all_relevant_keys: line 151
VizRelevant(e, keys) == e[1] \in keys /\ e[2] \in keys

\* what analyze_for_graph returns or raises: lines 148-162
GraphResult(papers, status, k_cited, k_citing, seed_papers, cited, citing, all_relevant_keys) ==
    IF status = "ok"
    THEN [status |-> "ok", k_cited |-> k_cited, k_citing |-> k_citing,
          seed_papers |-> seed_papers, cited_papers |-> cited,
          citing_papers |-> citing,
          edges |-> {e \in VizEdges(papers) : VizRelevant(e, all_relevant_keys)}]
    ELSE [status |-> status, k_cited |-> k_cited, k_citing |-> k_citing,
          seed_papers |-> <<>>, cited_papers |-> <<>>, citing_papers |-> <<>>,
          edges |-> {}]

\* analyze_for_graph from the two filtered collections on: lines 144-162
GraphOfNodes(papers, k_cited, k_citing, seed_papers, seed_keys, cited, citing) ==
    GraphResult(papers, FirstError(<<VizSeedLoopStatus(papers), VizLoopStatus(papers)>>),
                k_cited, k_citing, seed_papers, cited, citing,
                seed_keys \cup NodeKeys(cited) \cup NodeKeys(citing))

\* analyze_for_graph after seed_papers is built: lines 73-162
GraphOfSeeds(papers, k_cited, k_citing, seed_papers, seed_keys) ==
    GraphOfNodes(papers, k_cited, k_citing, seed_papers, seed_keys,
                 VizFilterIndex(VizBuildIndex(papers, "references"), seed_keys,
                                k_cited, "references"),
                 VizFilterIndex(VizBuildIndex(papers, "cited_by"), seed_keys,
                                k_citing, "cited_by"))

\* analyze_for_graph after seed_papers is built, with its keys
GraphOfPapers(papers, k_cited, k_citing, seed_papers) ==
    GraphOfSeeds(papers, k_cited, k_citing, seed_papers, NodeKeys(seed_papers))

\* analyze_for_graph(data, k_cited, k_citing): the dict it returns, or the
\* exception that leaves it.  seed_papers, cited_papers and citing_papers are
\* dicts, written as the sequences of their values in insertion order; edges is
\* list(set(...)), written as the set of its items: each item of the set is in
\* the list once, in an order Python does not fix
AnalyzeForGraph(d, k_cited, k_citing) ==
    GraphOfPapers(PapersOf(d), k_cited, k_citing, VizSeedPapers(PapersOf(d)))

---------------------------------------------------------------------------
(* get_citations.py: get_paper_key and merge_paper_lists *)

\* an item of a list of papers: None, or a reference to a dict
ItemNone == [kind |-> "none", rec |-> EmptyPaper]
ItemDict(p) == [kind |-> "dict", rec |-> p]

UnknownPrefix == <<"u", "n", "k", "n", "o", "w", "n", ":">>
CombinedSource == <<"o", "p", "e", "n", "a", "l", "e", "x", "+", "s", "e", "m", "a", "n", "t", "i", "c", "_", "s", "c", "h", "o", "l", "a", "r">>

\* str(id(paper)): a number that no other live object has, written as the
\* address of the object
IdChars(address) == <<Chr(Ord("0") + address)>>

\* get_paper_key of get_citations.py, for the dict at an address
MergeGetPaperKey(p, address) ==
    IF Truthy(Get(p, "doi", None)) THEN LowerKey(DoiPrefix, p["doi"])
    ELSE IF Truthy(Get(p, "arxiv_id", None)) THEN LowerKey(ArxivPrefix, p["arxiv_id"])
    ELSE IF Truthy(Get(p, "title", None))
         THEN IF p["title"].t # "str"
              THEN Raised("AttributeError")
              ELSE Str(TitlePrefix \o Prefix(LowerStr(p["title"].s), VizTitleKeyMaxLen))
    ELSE Str(UnknownPrefix \o IdChars(address))

\* the fields the inner loop copies: line 327
MergedFields == {"doi", "arxiv_id", "title", "authors", "year", "venue"}

\* existing after lines 326-331, later being the dict of the same key that
\* the loop is at
MergeInto(existing, later) ==
    [f \in Fields |->
        IF f \in MergedFields /\ ~Truthy(Get(existing, f, None)) /\ Truthy(Get(later, f, None))
        THEN later[f]
        ELSE IF f = "source" /\ Get(existing, "source", None) # Get(later, "source", None)
             THEN Str(CombinedSource)
             ELSE existing[f]]

\* the loop over list1 + list2 from the n-th item on: lines 317-331.  seen
\* maps a key to the address of the first dict that had it, in insertion
\* order, and that dict is changed where it lies
RECURSIVE MergeFrom(_, _, _, _)
MergeFrom(items, n, h, seen) ==
    IF n > Len(items)
    THEN [status |-> "ok", heap |-> h, seen |-> seen]
    ELSE IF h[items[n]].kind = "none"
         THEN MergeFrom(items, n + 1, h, seen)
         ELSE LET k == MergeGetPaperKey(h[items[n]].rec, items[n])
                  at == {i \in 1..Len(seen) : seen[i].key = k.s}
              IN  IF k.t = "raise"
                  THEN [status |-> k.s[1], heap |-> h, seen |-> seen]
                  ELSE IF at = {}
                       THEN MergeFrom(items, n + 1, h,
                                Append(seen, [key |-> k.s, address |-> items[n]]))
                       ELSE LET a == seen[CHOOSE i \in at : TRUE].address
                            IN  MergeFrom(items, n + 1,
                                    [h EXCEPT ![a].rec = MergeInto(@, h[items[n]].rec)],
                                    seen)

\* the merge that goes through list2 before list1
MergePaperListsSecondFirst(h, l1, l2) ==
    LET end == MergeFrom(l2 \o l1, 1, h, <<>>)
    IN  [status |-> end.status,
         heap |-> end.heap,
         papers |-> IF end.status = "ok"
                    THEN [i \in 1..Len(end.seen) |-> end.seen[i].address]
                    ELSE <<>>]

\* merge_paper_lists(list1, list2): list(seen.values()) as addresses, and the
\* dicts after the call; an exception leaves the dicts as the loop left them
MergePaperLists(h, l1, l2) ==
    LET end == MergeFrom(l1 \o l2, 1, h, <<>>)
    IN  [status |-> end.status,
         heap |-> end.heap,
         papers |-> IF end.status = "ok"
                    THEN [i \in 1..Len(end.seen) |-> end.seen[i].address]
                    ELSE <<>>]

---------------------------------------------------------------------------
(* normalize_title applied to a title and to an edited copy of it *)

\* how many edits turn the title into its variant
MaxEdits == 2

Repeat(c, n) == [i \in 1..n |-> c]

\* the one-character strings among RemovedPunctuation
PunctuationChars ==
    {RemovedPunctuation[k][1] :
        k \in {j \in 1..Len(RemovedPunctuation) : Len(RemovedPunctuation[j]) = 1}}

\* the left and right single and double quotation marks
SmartQuotes == {"U+2018", "U+2019", "U+201C", "U+201D"}

\* the punctuation whose presence the edits change: colon, hyphen, straight
\* quotes and smart quotes
EditedPunctuation == PunctuationChars \cup SmartQuotes

\* the letters the edits put in the other case: the ASCII letters, and the
\* accented, Greek and special letters of the titles with their counterparts
CaseLetters ==
    {Chr(n) : n \in (OrdCapitalA..OrdCapitalZ) \cup (OrdSmallA..OrdSmallZ)}
    \cup {"U+00C9", "U+00E9", "U+0391", "U+03B1", "U+03A3", "U+03C3", "U+03C2",
          "U+039C", "U+03BC", "U+00B5", "U+017F", "U+0131", "U+0130", "U+212A"}

\* a small letter and the capital str.upper() makes of it, where str.lower()
\* of that capital is another small letter: long s, dotless i, micro sign and
\* final sigma
UpperOnlyPairs ==
    { <<"U+017F", "S">>, <<"U+0131", "I">>, <<"U+00B5", "U+039C">>,
      <<"U+03C2", "U+03A3">> }

\* c and d are one letter in two cases
SameLetter(c, d) ==
    /\ c # d
    /\ \/ LowerChar(c) = <<d>>
       \/ LowerChar(d) = <<c>>
       \/ <<c, d>> \in UpperOnlyPairs
       \/ <<d, c>> \in UpperOnlyPairs

\* what a letter can be exchanged for by a change of case: each counterpart,
\* and what str.lower() makes of the letter alone
CaseVariants ==
    [c \in CaseLetters |->
        {<<d>> : d \in {e \in CaseLetters : SameLetter(c, e)}}
        \cup (IF IsUpper(c) THEN {LowerChar(c)} ELSE {})]

TitleInputs ==
    { <<>>, <<"A", " ", "b">>, <<"a", "-", "B">>, <<"x", ":", " ", " ", "Y">>, <<"I", "t", "'", "s">>, <<"a", "\t", "-", "b">>, <<" ", "q", "\"", "r", "\"", " ">>,
      <<"a", "U+00E2", "U+20AC", "U+201C", "Z">>,
      <<"U+00C9", "\r", "U+0391", "U+03A3">>,
      <<"U+0391", "U+03A3", ":", "U+0391">>,
      <<"a", "U+201D", " ", "b">>,
      <<"U+201C", "q", "U+201D">>,
      <<"I", "t", "U+2019", "s">>,
      <<"U+017F", "o", "U+0131">>,
      <<"U+00B5", "m">>,
      Repeat("1", TitleKeyMaxLen - 1) \o <<" ", "b", "c">>,
      Repeat("1", TitleKeyMaxLen) \o <<" ", "b">>,
      Repeat("1", TitleKeyMaxLen - 2) \o <<" ", "b", "c", "d">>,
      Repeat("1", TitleKeyMaxLen - 1) \o <<":", "b">> }

TitleInit ==
    /\ title \in TitleInputs
    /\ variant = title
    /\ edits = <<>>
    /\ normalized = Absent
    /\ normalizedVariant = Absent
    /\ renormalized = Absent
    /\ titleKey = Absent
    /\ variantKey = Absent

CanEdit == normalized = Absent /\ Len(edits) < MaxEdits

\* the variant gets one letter in the other case
EditCase(i) ==
    /\ CanEdit
    /\ variant[i] \in CaseLetters
    /\ \E other \in CaseVariants[variant[i]] :
           variant' = SubSeq(variant, 1, i - 1) \o other
                          \o SubSeq(variant, i + 1, Len(variant))
    /\ edits' = Append(edits, "case")
    /\ UNCHANGED <<title, normalized, normalizedVariant, renormalized, titleKey, variantKey>>
    /\ UNCHANGED notTitleVars

\* the variant gets an internal run of whitespace made one space longer
EditSpace(i) ==
    /\ CanEdit
    /\ variant[i] \in Whitespace
    /\ {j \in 1..(i - 1) : ~IsSpace(variant[j])} # {}
    /\ {j \in (i + 1)..Len(variant) : ~IsSpace(variant[j])} # {}
    /\ variant' = SubSeq(variant, 1, i) \o <<" ">> \o SubSeq(variant, i + 1, Len(variant))
    /\ edits' = Append(edits, "space")
    /\ UNCHANGED <<title, normalized, normalizedVariant, renormalized, titleKey, variantKey>>
    /\ UNCHANGED notTitleVars

\* the variant gets a space where it has a punctuation character
EditPunctuationToSpace(i) ==
    /\ CanEdit
    /\ variant[i] \in EditedPunctuation
    /\ variant' = [variant EXCEPT ![i] = " "]
    /\ edits' = Append(edits, "punctuation_to_space")
    /\ UNCHANGED <<title, normalized, normalizedVariant, renormalized, titleKey, variantKey>>
    /\ UNCHANGED notTitleVars

\* the variant loses a punctuation character
EditDropPunctuation(i) ==
    /\ CanEdit
    /\ variant[i] \in EditedPunctuation
    /\ variant' = SubSeq(variant, 1, i - 1) \o SubSeq(variant, i + 1, Len(variant))
    /\ edits' = Append(edits, "punctuation_dropped")
    /\ UNCHANGED <<title, normalized, normalizedVariant, renormalized, titleKey, variantKey>>
    /\ UNCHANGED notTitleVars

\* normalize_title and get_paper_key applied to the title and to the variant
NormalizeTitles ==
    /\ normalized = Absent
    /\ normalized' = NormalizeTitle(Str(title))
    /\ normalizedVariant' = NormalizeTitle(Str(variant))
    /\ titleKey' = GetPaperKey(TitleOnly(title))
    /\ variantKey' = GetPaperKey(TitleOnly(variant))
    /\ UNCHANGED <<title, variant, edits, renormalized>>
    /\ UNCHANGED notTitleVars

\* normalize_title applied to its own result
Renormalize ==
    /\ normalized # Absent
    /\ renormalized = Absent
    /\ renormalized' = NormalizeTitle(normalized)
    /\ UNCHANGED <<title, variant, edits, normalized, normalizedVariant, titleKey, variantKey>>
    /\ UNCHANGED notTitleVars

TitleNext ==
    \/ \E i \in 1..Len(variant) : EditCase(i)
    \/ \E i \in 1..Len(variant) : EditSpace(i)
    \/ \E i \in 1..Len(variant) : EditPunctuationToSpace(i)
    \/ \E i \in 1..Len(variant) : EditDropPunctuation(i)
    \/ NormalizeTitles
    \/ Renormalize

---------------------------------------------------------------------------
(* get_paper_key applied to one record *)

TitleValues == {Absent, None, Str(<<>>), Str(<<" ", ":", " ">>), Str(<<"A", " ", " ", "b">>)}
DoiValues == {Absent, Str(<<>>), Str(<<"1", "0", ".", "1", "/", "x", "y", "z">>), Str(<<"1", "0", ".", "5", "/", "A", "B">>),
              Str(<<"1", "0", ".", "4", "8", "5", "5", "0", "/", "a", "r", "X", "i", "v", ".", "2", "2", "0", "1", ".", "0", "5", "1", "2", "5">>)}
ArxivIdValues == {Absent, None, Str(<<"2", "2", "0", "1", ".", "0", "0", "0", "0", "1", "V", "2">>)}
OpenAlexIdValues == {Absent, Str(<<"W", "1", "2", "3">>)}
S2IdValues == {Absent, Str(<<"A", "b", "C">>)}

KeyInputs ==
    {[EmptyPaper EXCEPT !["title"] = t, !["doi"] = d, !["arxiv_id"] = a,
                        !["openalex_id"] = o, !["s2_id"] = i] :
        t \in TitleValues, d \in DoiValues, a \in ArxivIdValues,
        o \in OpenAlexIdValues, i \in S2IdValues}

KeyInit ==
    /\ paper \in KeyInputs
    /\ key = Absent

ResolveKey ==
    /\ key = Absent
    /\ key' = GetPaperKey(paper)
    /\ UNCHANGED paper
    /\ UNCHANGED notKeyVars

KeyNext == ResolveKey

\* records as a JSON document can hold them: a member may be missing, null,
\* empty, a string, a number or a list
AnyTitleValues == {Absent, None, Str(<<>>), Str(<<" ", ":", " ">>), Str(<<"A", " ", "b">>),
                   IntVal(5), ListVal(<<<<"a">>>>)}
AnyDoiValues == {Absent, None, Str(<<"1", "0", ".", "1", "/", "X">>), IntVal(5)}
AnyIdValues == {Absent, Str(<<"W", "1">>), IntVal(7)}

AnyKeyInputs ==
    {[EmptyPaper EXCEPT !["title"] = t, !["doi"] = d, !["arxiv_id"] = a,
                        !["openalex_id"] = o, !["s2_id"] = i] :
        t \in AnyTitleValues, d \in AnyDoiValues, a \in AnyIdValues,
        o \in AnyIdValues, i \in {Absent, Str(<<"S", "1">>)}}

AnyKeyInit ==
    /\ paper \in AnyKeyInputs
    /\ key = Absent

---------------------------------------------------------------------------
(* analyze_citations and analyze_for_graph applied to a document *)

\* input entries of a document
MaxPapers == 2
\* records in all the references and cited_by lists of a document together
MaxRecords == 2
\* the thresholds are 1..MaxK
MaxK == 2
\* records in the lists of the one entry of a document whose lists get sorted
MaxRankRecords == 3
\* entries of a document that is read for its shape
MaxShapePapers == 1

SeedA == [EmptyPaper EXCEPT !["title"] = Str(<<"P", "a", "p", "e", "r", " ", "A">>), !["doi"] = Str(<<"1", "0", ".", "1", "/", "a">>),
                            !["year"] = IntVal(2019)]
SeedB == [EmptyPaper EXCEPT !["title"] = Str(<<"P", "a", "p", "e", "r", " ", "B">>), !["doi"] = Str(<<"1", "0", ".", "1", "/", "b">>)]

\* a paper outside the seed set
RecX == [EmptyPaper EXCEPT !["title"] = Str(<<"P", "a", "p", "e", "r", " ", "X">>), !["doi"] = Str(<<"1", "0", ".", "2", "/", "x">>),
                           !["authors"] = ListVal(<<<<"A", "n", "n">>>>),
                           !["year"] = IntVal(2020), !["venue"] = Str(<<"V">>)]
\* another one, later in the order of titles
RecZ == [EmptyPaper EXCEPT !["title"] = Str(<<"P", "a", "p", "e", "r", " ", "Z">>), !["doi"] = Str(<<"1", "0", ".", "2", "/", "z">>)]
\* a paper known by its DOI only
RecY == [EmptyPaper EXCEPT !["doi"] = Str(<<"1", "0", ".", "2", "/", "y">>)]
\* a paper with an empty title
RecE == [EmptyPaper EXCEPT !["title"] = Str(<<>>), !["doi"] = Str(<<"1", "0", ".", "2", "/", "e">>)]
\* a paper whose title is null
RecN == [EmptyPaper EXCEPT !["title"] = None, !["doi"] = Str(<<"1", "0", ".", "2", "/", "n">>)]
\* seed paper A as a provider lists it among references or citing papers
RecA == [EmptyPaper EXCEPT !["title"] = Str(<<"P", "A", "P", "E", "R", " ", " ", "A">>), !["doi"] = Str(<<"1", "0", ".", "1", "/", "A">>)]

Metas == {MetaNone, MetaDict(SeedA), MetaDict(SeedB)}
Pool == {RecX, RecY, RecA}
RankPool == {RecX, RecZ, RecY, RecE, RecN}

\* the DOI the i-th entry was asked for
InputDoi(i) == Str(<<"1", "0", ".", "0", "/">> \o <<Chr(Ord("0") + i)>>)

\* the entries (without input_doi) that hold exactly u records
EntryBodies(metas, pool, u) ==
    UNION {{[metadata |-> md, references |-> r, cited_by |-> c] :
                md \in metas, r \in [1..a -> pool], c \in [1..(u - a) -> pool]} :
           a \in 0..u}

\* the sequences of n entries that hold at most budget records together
RECURSIVE EntrySeqs(_, _, _, _)
EntrySeqs(metas, pool, n, budget) ==
    IF n = 0
    THEN {<<>>}
    ELSE UNION {{<<e>> \o rest : e \in EntryBodies(metas, pool, u),
                                 rest \in EntrySeqs(metas, pool, n - 1, budget - u)} :
                u \in 0..budget}

DocumentOf(es) ==
    [has_papers |-> TRUE,
     papers |-> [i \in 1..Len(es) |->
                    [input_doi |-> InputDoi(i), metadata |-> es[i].metadata,
                     references |-> es[i].references, cited_by |-> es[i].cited_by]]]

NoResult == [status |-> "none", k_cited |-> 0, k_citing |-> 0,
             cited_papers |-> <<>>, citing_papers |-> <<>>]
NoGraph == [status |-> "none", k_cited |-> 0, k_citing |-> 0,
            seed_papers |-> <<>>, cited_papers |-> <<>>, citing_papers |-> <<>>,
            edges |-> {}]

\* every document of up to MaxPapers entries and MaxRecords records
AnalysisInit ==
    /\ \E n \in 0..MaxPapers :
           \E es \in EntrySeqs(Metas, Pool, n, MaxRecords) : data = DocumentOf(es)
    /\ result = NoResult
    /\ graph = NoGraph

\* one entry, seed paper A, with up to MaxRankRecords records
RankInit ==
    /\ \E es \in EntrySeqs({MetaDict(SeedA)}, RankPool, 1, MaxRankRecords) :
           data = DocumentOf(es)
    /\ result = NoResult
    /\ graph = NoGraph

\* analyze_citations.py is run on the document with thresholds kc and kg
RunAnalyze(kc, kg) ==
    /\ result' = AnalyzeCitations(data, kc, kg)
    /\ UNCHANGED <<data, graph>>
    /\ UNCHANGED notAnalysisVars

\* visualize_citations.py is run on the document with thresholds kc and kg
RunGraph(kc, kg) ==
    /\ graph' = AnalyzeForGraph(data, kc, kg)
    /\ UNCHANGED <<data, result>>
    /\ UNCHANGED notAnalysisVars

\* entries whose metadata is null, an empty dict or the dict of seed paper A
InertMetas == {MetaNone, MetaDict(EmptyPaper), MetaDict(SeedA)}
InertPool == {RecX, RecA}

InertInit ==
    /\ \E n \in 0..MaxPapers :
           \E es \in EntrySeqs(InertMetas, InertPool, n, MaxRecords) : data = DocumentOf(es)
    /\ result = NoResult
    /\ graph = NoGraph

\* paper X as another provider describes it: the same key for both tools,
\* other descriptive fields
RecXLate == [EmptyPaper EXCEPT !["title"] = Str(<<"P", "A", "P", "E", "R", " ", "X">>),
                               !["doi"] = Str(<<"1", "0", ".", "2", "/", "X">>),
                               !["year"] = IntVal(2021), !["venue"] = Str(<<"W">>)]

SnapshotMetas == {MetaDict(SeedA), MetaDict(SeedB)}
SnapshotPool == {RecX, RecXLate}

\* documents whose lists hold the two descriptions of paper X
SnapshotInit ==
    /\ \E n \in 1..MaxPapers :
           \E es \in EntrySeqs(SnapshotMetas, SnapshotPool, n, MaxRecords) :
               data = DocumentOf(es)
    /\ result = NoResult
    /\ graph = NoGraph

\* a JSON object that has no "papers" member
NoPapersDocument == [has_papers |-> FALSE, papers |-> <<>>]

\* a record that has none of the fields a key is made of
RecU == [EmptyPaper EXCEPT !["venue"] = Str(<<"V">>)]

ShapeMetas == Metas \cup {MetaDict(RecU)}
ShapePool == Pool \cup {RecU}

\* the documents of at most one entry, and the object without "papers"
ShapeInit ==
    /\ \/ data = NoPapersDocument
       \/ \E n \in 0..MaxShapePapers :
              \E es \in EntrySeqs(ShapeMetas, ShapePool, n, MaxRecords) : data = DocumentOf(es)
    /\ result = NoResult
    /\ graph = NoGraph

AnalyzeNext == \E kc, kg \in 1..MaxK : RunAnalyze(kc, kg)

GraphNext == \E kc, kg \in 1..MaxK : RunGraph(kc, kg)

Next ==
    \/ \E kc, kg \in 1..MaxK : RunAnalyze(kc, kg)
    \/ \E kc, kg \in 1..MaxK : RunGraph(kc, kg)

---------------------------------------------------------------------------
(* merge_paper_lists applied to two lists of provider records *)

\* items in each of the two lists
MaxList == 2

\* paper X as openalex_extract_metadata makes it: no venue
OaX == [EmptyPaper EXCEPT !["openalex_id"] = Str(<<"W", "1">>), !["doi"] = Str(<<"1", "0", ".", "1", "/", "x">>),
                          !["title"] = Str(<<"P", "a", "p", "e", "r", " ", "X">>), !["authors"] = ListVal(<<<<"A", "n", "n">>>>),
                          !["year"] = IntVal(2020), !["venue"] = Str(<<>>),
                          !["source"] = Str(<<"o", "p", "e", "n", "a", "l", "e", "x">>)]
\* paper X as s2_extract_metadata makes it: no year, no authors
S2X == [EmptyPaper EXCEPT !["s2_id"] = Str(<<"s", "1">>), !["doi"] = Str(<<"1", "0", ".", "1", "/", "X">>),
                          !["arxiv_id"] = Str(<<>>), !["title"] = Str(<<"P", "a", "p", "e", "r", " ", "X", ".">>),
                          !["authors"] = ListVal(<<>>), !["year"] = None,
                          !["venue"] = Str(<<"V">>), !["source"] = Str(<<"s", "e", "m", "a", "n", "t", "i", "c", "_", "s", "c", "h", "o", "l", "a", "r">>)]
\* paper X once more, from Semantic Scholar, with another year and an arXiv id
S2XLate == [S2X EXCEPT !["arxiv_id"] = Str(<<"2", "2", "0", "1", ".", "1">>), !["year"] = IntVal(2021),
                       !["venue"] = Str(<<>>)]
\* a record that has nothing to make a key from
S2Blank == [EmptyPaper EXCEPT !["s2_id"] = Str(<<>>), !["doi"] = Str(<<>>),
                              !["arxiv_id"] = Str(<<>>), !["title"] = Str(<<>>),
                              !["authors"] = ListVal(<<>>), !["year"] = None,
                              !["venue"] = Str(<<>>), !["source"] = Str(<<"s", "e", "m", "a", "n", "t", "i", "c", "_", "s", "c", "h", "o", "l", "a", "r">>)]

\* paper X as a record that names no provider: no source member
PlainX == [EmptyPaper EXCEPT !["doi"] = Str(<<"1", "0", ".", "1", "/", "x">>),
                             !["title"] = Str(<<"P", "a", "p", "e", "r", " ", "X">>)]

\* a preprint known by its arXiv id only, without a title
ArxivX == [EmptyPaper EXCEPT !["s2_id"] = Str(<<"s", "2">>), !["doi"] = Str(<<>>),
                             !["arxiv_id"] = Str(<<"2", "2", "0", "1", ".", "1">>),
                             !["title"] = Str(<<>>), !["authors"] = ListVal(<<>>),
                             !["year"] = None, !["venue"] = Str(<<>>),
                             !["source"] = Str(<<"s", "e", "m", "a", "n", "t", "i", "c", "_", "s", "c", "h", "o", "l", "a", "r">>)]
\* the same preprint with its title
ArxivXTitled == [ArxivX EXCEPT !["title"] = Str(<<"P", "a", "p", "e", "r", " ", "X">>),
                               !["year"] = IntVal(2021)]
\* paper X known by its title only
TitledX == [EmptyPaper EXCEPT !["openalex_id"] = Str(<<"W", "1">>), !["doi"] = Str(<<>>),
                              !["title"] = Str(<<"P", "A", "P", "E", "R", " ", "X">>),
                              !["authors"] = ListVal(<<>>), !["year"] = None,
                              !["venue"] = Str(<<"V">>),
                              !["source"] = Str(<<"o", "p", "e", "n", "a", "l", "e", "x">>)]

\* the same title with a year, from Semantic Scholar
TitledXLate == [EmptyPaper EXCEPT !["s2_id"] = Str(<<"s", "3">>), !["doi"] = Str(<<>>),
                                  !["arxiv_id"] = Str(<<>>),
                                  !["title"] = Str(<<"P", "a", "p", "e", "r", " ", "X">>),
                                  !["authors"] = ListVal(<<>>), !["year"] = IntVal(2020),
                                  !["venue"] = Str(<<>>),
                                  !["source"] = Str(<<"s", "e", "m", "a", "n", "t", "i", "c", "_", "s", "c", "h", "o", "l", "a", "r">>)]

\* records that get their key from the DOI, the arXiv id, the title or from
\* nothing
MergeKeyPool == {ItemNone, ItemDict(S2XLate), ItemDict(ArxivX), ItemDict(ArxivXTitled),
                 ItemDict(TitledX), ItemDict(TitledXLate), ItemDict(S2Blank)}

\* s2_extract_metadata returns None for an empty paper
MergePool == {ItemNone, ItemDict(OaX), ItemDict(S2X), ItemDict(S2XLate), ItemDict(S2Blank),
              ItemDict(PlainX)}

NotMerged == [status |-> "none", papers |-> <<>>]

\* every item is a dict of its own: list1 lies at the first addresses
MergeInit ==
    /\ \E n1, n2 \in 0..MaxList :
           /\ heap \in [1..(n1 + n2) -> MergePool]
           /\ list1 = [i \in 1..n1 |-> i]
           /\ list2 = [i \in 1..n2 |-> n1 + i]
    /\ heapBefore = heap
    /\ merged = NotMerged

\* every item is a dict of its own, of any kind of key
MergeKeyInit ==
    /\ \E n1, n2 \in 0..MaxList :
           /\ heap \in [1..(n1 + n2) -> MergeKeyPool]
           /\ list1 = [i \in 1..n1 |-> i]
           /\ list2 = [i \in 1..n2 |-> n1 + i]
    /\ heapBefore = heap
    /\ merged = NotMerged

\* merge_paper_lists(list1, list2) is called
Merge ==
    /\ merged.status = "none"
    /\ heap' = MergePaperLists(heap, list1, list2).heap
    /\ merged' = [status |-> MergePaperLists(heap, list1, list2).status,
                  papers |-> MergePaperLists(heap, list1, list2).papers]
    /\ UNCHANGED <<heapBefore, list1, list2>>
    /\ UNCHANGED notMergeVars

MergeNext == Merge

---------------------------------------------------------------------------
(* Specifications *)

TitleIdle ==
    /\ title = <<>>
    /\ variant = <<>>
    /\ edits = <<>>
    /\ normalized = Absent
    /\ normalizedVariant = Absent
    /\ renormalized = Absent
    /\ titleKey = Absent
    /\ variantKey = Absent

KeyIdle ==
    /\ paper = EmptyPaper
    /\ key = Absent

AnalysisIdle ==
    /\ data = [has_papers |-> TRUE, papers |-> <<>>]
    /\ result = NoResult
    /\ graph = NoGraph

MergeIdle ==
    /\ heap = <<>>
    /\ heapBefore = <<>>
    /\ list1 = <<>>
    /\ list2 = <<>>
    /\ merged = NotMerged

InitTitle == TitleInit /\ KeyIdle /\ AnalysisIdle /\ MergeIdle
SpecTitle == InitTitle /\ [][TitleNext]_vars

InitKey == KeyInit /\ TitleIdle /\ AnalysisIdle /\ MergeIdle
SpecKey == InitKey /\ [][KeyNext]_vars

\* get_paper_key on records with members of any JSON type
InitKeyAny == AnyKeyInit /\ TitleIdle /\ AnalysisIdle /\ MergeIdle
SpecKeyAny == InitKeyAny /\ [][KeyNext]_vars

\* analyze_citations on every document of the bounds
InitAnalyze == AnalysisInit /\ TitleIdle /\ KeyIdle /\ MergeIdle
SpecAnalyze == InitAnalyze /\ [][AnalyzeNext]_vars

\* analyze_citations on the documents whose lists hold ties
InitRank == RankInit /\ TitleIdle /\ KeyIdle /\ MergeIdle
SpecRank == InitRank /\ [][AnalyzeNext]_vars

\* analyze_for_graph on every document of the bounds
SpecGraph == InitAnalyze /\ [][GraphNext]_vars

\* merge_paper_lists on every pair of lists of the bounds
InitMerge == MergeInit /\ TitleIdle /\ KeyIdle /\ AnalysisIdle
SpecMerge == InitMerge /\ [][MergeNext]_vars

\* merge_paper_lists on lists of records of every kind of key
InitMergeKeys == MergeKeyInit /\ TitleIdle /\ KeyIdle /\ AnalysisIdle
SpecMergeKeys == InitMergeKeys /\ [][MergeNext]_vars

\* both tools on the documents that have entries without metadata
InitInert == InertInit /\ TitleIdle /\ KeyIdle /\ MergeIdle
SpecInert == InitInert /\ [][Next]_vars

\* both tools on well-formed documents and on an object without "papers"
InitShape == ShapeInit /\ TitleIdle /\ KeyIdle /\ MergeIdle
SpecShape == InitShape /\ [][Next]_vars

\* both tools on documents that describe one paper in two ways
InitSnapshot == SnapshotInit /\ TitleIdle /\ KeyIdle /\ MergeIdle
SpecSnapshot == InitSnapshot /\ [][Next]_vars

\* both tools on every document of the bounds
Init == InitAnalyze
Spec == Init /\ [][Next]_vars

---------------------------------------------------------------------------
(* Properties of get_paper_key (analyze_citations.py) *)

Range(seq) == {seq[i] : i \in 1..Len(seq)}

\* the key each namespace offers for a record, in the documented priority
\* order; None where the namespace is not satisfied
KeyCandidates(p) ==
    LET strOf(f) == IF p[f].t = "str" THEN p[f].s ELSE <<>>
        normal == NormalizeTitle(Str(strOf("title"))).s
        fromDoi == ExtractArxivIdFromDoi(Str(strOf("doi")))
    IN  << IF normal # <<>> THEN Str(TitlePrefix \o normal) ELSE None,
           IF fromDoi.t = "str" THEN Str(ArxivPrefix \o fromDoi.s) ELSE None,
           IF strOf("arxiv_id") # <<>> THEN Str(ArxivPrefix \o LowerStr(strOf("arxiv_id"))) ELSE None,
           IF strOf("doi") # <<>> THEN Str(DoiPrefix \o LowerStr(strOf("doi"))) ELSE None,
           IF strOf("openalex_id") # <<>> THEN Str(OpenAlexPrefix \o LowerStr(strOf("openalex_id"))) ELSE None,
           IF strOf("s2_id") # <<>> THEN Str(S2Prefix \o LowerStr(strOf("s2_id"))) ELSE None >>

\* the index of the first satisfied namespace (one past the last when none is)
Winner(cands) ==
    LET sat == {i \in 1..Len(cands) : cands[i] # None} \cup {Len(cands) + 1}
    IN  CHOOSE i \in sat : \A j \in sat : i <= j

\* the record members the namespaces up to the w-th read
FieldsRead(w) ==
    CASE w = 1 -> {"title"}
      [] w = 2 -> {"title", "doi"}
      [] w \in {3, 4} -> {"title", "doi", "arxiv_id"}
      [] w = 5 -> {"title", "doi", "arxiv_id", "openalex_id"}
      [] OTHER -> {"title", "doi", "arxiv_id", "openalex_id", "s2_id"}

OnlyOpenAlex == [EmptyPaper EXCEPT !["openalex_id"] = Str(<<"W", "1", "2", "3">>)]
OpenAlexAndDoi == [OnlyOpenAlex EXCEPT !["doi"] = Str(<<"1", "0", ".", "1", "/", "x", "y", "z">>)]

\* C4: the key is the one of the first satisfied namespace in the order title,
\* arXiv id from the DOI, arXiv id, DOI, OpenAlex id, Semantic Scholar id, with
\* the identifier lowercased; a record that differs only in members of lower
\* priority has the same key; the record holding only openalex_id "W123" has
\* the key openalex:w123 and, with the DOI "10.1/xyz" added, doi:10.1/xyz
KeyPriority ==
    key # Absent =>
        LET cands == KeyCandidates(paper)
            w == Winner(cands)
        IN  /\ key = IF w <= Len(cands) THEN cands[w] ELSE None
            /\ \A q \in KeyInputs :
                   (\A f \in FieldsRead(w) : q[f] = paper[f]) => GetPaperKey(q) = key
            /\ paper = OnlyOpenAlex => key = Str(<<"o", "p", "e", "n", "a", "l", "e", "x", ":", "w", "1", "2", "3">>)
            /\ paper = OpenAlexAndDoi => key = Str(<<"d", "o", "i", ":", "1", "0", ".", "1", "/", "x", "y", "z">>)

\* a DOI decided the key of a record that also holds an OpenAlex and an S2 id
KeyPriorityWitness ==
    /\ key = Str(<<"d", "o", "i", ":", "1", "0", ".", "1", "/", "x", "y", "z">>)
    /\ paper["openalex_id"] = Str(<<"W", "1", "2", "3">>)
    /\ paper["s2_id"].t = "str"
    /\ paper["arxiv_id"] = None

---------------------------------------------------------------------------
(* Properties of normalize_title *)

\* C5: normalize_title applied to its own result returns it unchanged
NormalizeIdempotent ==
    renormalized # Absent => renormalized = normalized

\* C6: a title and a variant that differs from it only in the case of
\* letters, in the length of internal whitespace runs, or in the presence of
\* punctuation (colon, hyphen, quotes) have the same normalised title and the
\* same key
NormalizationEquivalence ==
    normalized # Absent => normalizedVariant = normalized /\ variantKey = titleKey

\* a title with a right double quotation mark keeps it through normalize_title,
\* and the variant without the mark is normalised to another string and key
SmartQuoteKept ==
    /\ title = <<"a", "U+201D", " ", "b">>
    /\ variant = <<"a", " ", "b">>
    /\ edits = <<"punctuation_dropped">>
    /\ normalized = Str(title)
    /\ normalizedVariant = Str(variant)
    /\ titleKey = Str(TitlePrefix \o title)
    /\ variantKey = Str(TitlePrefix \o variant)


---------------------------------------------------------------------------
(* Properties of analyze_citations *)

\* the input entries that have a non-empty metadata record with a key
KeyedEntries ==
    {i \in 1..Len(PapersOf(data)) :
        /\ MetaTruthy(PapersOf(data)[i].metadata)
        /\ Truthy(GetPaperKey(PapersOf(data)[i].metadata.rec))}

\* the seed key set of the document
SeedKeySet == {GetPaperKey(PapersOf(data)[i].metadata.rec).s : i \in KeyedEntries}

\* the keys the records of one relation resolve to, over the whole document
ListedKeys(rel) ==
    UNION {{GetPaperKey(RelationOf(PapersOf(data)[i], rel)[j]).s :
                j \in {h \in 1..Len(RelationOf(PapersOf(data)[i], rel)) :
                          Truthy(GetPaperKey(RelationOf(PapersOf(data)[i], rel)[h]))}} :
           i \in {h \in 1..Len(PapersOf(data)) : MetaTruthy(PapersOf(data)[h].metadata)}}

\* the seed keys whose list of the relation holds a record resolving to key k
Contributors(rel, k) ==
    {GetPaperKey(PapersOf(data)[i].metadata.rec).s :
        i \in {h \in KeyedEntries :
                  \E j \in 1..Len(RelationOf(PapersOf(data)[h], rel)) :
                      GetPaperKey(RelationOf(PapersOf(data)[h], rel)[j]) = Str(k)}}

ResultKeys(list) == {list[i].key.s : i \in 1..Len(list)}

\* C1: seed exclusion.  No entry of the cited list or of the citing list that
\* analyze_citations returns has a key of the seed key set, and every returned
\* entry has is_in_seed_set = false.
SeedExclusion ==
    result.status = "ok" =>
        /\ \A i \in 1..Len(result.cited_papers) :
               /\ result.cited_papers[i].key.s \notin SeedKeySet
               /\ ~result.cited_papers[i].is_in_seed_set
        /\ \A i \in 1..Len(result.citing_papers) :
               /\ result.citing_papers[i].key.s \notin SeedKeySet
               /\ ~result.citing_papers[i].is_in_seed_set

\* a seed paper is listed as a reference, often enough to pass the threshold,
\* next to a paper that is returned
SeedExclusionWitness ==
    /\ result.status = "ok"
    /\ result.k_cited = 1
    /\ ListedKeys("references") \cap SeedKeySet # {}
    /\ result.cited_papers # <<>>

\* C2: count correctness.  For every returned entry, c_in (c_out) is the number
\* of distinct seed keys whose references (cited_by) list holds at least one
\* record resolving to the entry's key.
CountCorrectness ==
    result.status = "ok" =>
        /\ \A i \in 1..Len(result.cited_papers) :
               result.cited_papers[i].c_in =
                   Cardinality(Contributors("references", result.cited_papers[i].key.s))
        /\ \A i \in 1..Len(result.citing_papers) :
               result.citing_papers[i].c_out =
                   Cardinality(Contributors("cited_by", result.citing_papers[i].key.s))

\* C3: threshold monotonicity.  When analyze_citations is run again on the
\* same document, a list whose threshold did not go down holds no key that the
\* list of the run before did not hold.
ThresholdMonotone ==
    [][(result.status = "ok" /\ result'.status = "ok" /\ data' = data) =>
           /\ result'.k_cited >= result.k_cited =>
                  ResultKeys(result'.cited_papers) \subseteq ResultKeys(result.cited_papers)
           /\ result'.k_citing >= result.k_citing =>
                  ResultKeys(result'.citing_papers) \subseteq ResultKeys(result.citing_papers)]_vars

\* at threshold 2 the cited list leaves out a paper that is listed as a
\* reference and is no seed paper: the list of threshold 1 holds it
ThresholdMonotoneWitness ==
    /\ result.status = "ok"
    /\ result.k_cited = 2
    /\ (ListedKeys("references") \ SeedKeySet) \ ResultKeys(result.cited_papers) # {}

\* the place of key k in the index of the relation
IndexPlace(rel, k) ==
    CHOOSE n \in 1..Len(BuildIndex(PapersOf(data), rel)) :
        BuildIndex(PapersOf(data), rel)[n].key = k

\* the list is in the order of (-count, title), and entries that are equal in
\* both are in the order of the index
Ranked(list, rel) ==
    \A i, j \in 1..Len(list) :
        i < j =>
            \/ CountOf(list[i]) > CountOf(list[j])
            \/ /\ CountOf(list[i]) = CountOf(list[j])
               /\ list[i].title.t = "str"
               /\ list[j].title.t = "str"
               /\ \/ StrLess(list[i].title.s, list[j].title.s)
                  \/ /\ list[i].title.s = list[j].title.s
                     /\ IndexPlace(rel, list[i].key.s) < IndexPlace(rel, list[j].key.s)

\* C7: ranking order.  Each returned list is sorted by count descending, then
\* by title ascending, entries equal in both keep the order of the index, and
\* the sort fails for no title: a run of analyze_citations always returns.
RankingOrder ==
    result.status # "none" =>
        /\ result.status = "ok"
        /\ Ranked(result.cited_papers, "references")
        /\ Ranked(result.citing_papers, "cited_by")

---------------------------------------------------------------------------
(* Properties of analyze_for_graph *)

VizKeyedEntries ==
    {i \in 1..Len(PapersOf(data)) : Truthy(VizSeedKeyOf(PapersOf(data)[i]))}

\* the seed keys whose list of the relation holds a record with key k
VizContributors(rel, k) ==
    {VizSeedKeyOf(PapersOf(data)[i]).s :
        i \in {h \in VizKeyedEntries :
                  \E j \in 1..Len(RelationOf(PapersOf(data)[h], rel)) :
                      VizGetPaperKey(RelationOf(PapersOf(data)[h], rel)[j]) = Str(k)}}

\* <<seed key, key>> for every record with a key in a list of the relation
VizListed(rel) ==
    UNION {{<<VizSeedKeyOf(PapersOf(data)[i]).s,
              VizGetPaperKey(RelationOf(PapersOf(data)[i], rel)[j]).s>> :
                j \in {h \in 1..Len(RelationOf(PapersOf(data)[i], rel)) :
                          Truthy(VizGetPaperKey(RelationOf(PapersOf(data)[i], rel)[h]))}} :
           i \in VizKeyedEntries}

HasEdge(src, tgt) == \E e \in graph.edges : e[1] = src /\ e[2] = tgt

\* C8: partition disjointness.  No key is in more than one of seed_papers,
\* cited_papers and citing_papers.
PartitionDisjoint ==
    graph.status = "ok" =>
        /\ NodeKeys(graph.seed_papers) \cap NodeKeys(graph.cited_papers) = {}
        /\ NodeKeys(graph.seed_papers) \cap NodeKeys(graph.citing_papers) = {}
        /\ NodeKeys(graph.cited_papers) \cap NodeKeys(graph.citing_papers) = {}

\* both ends of every edge are nodes, and no two edges have the same ends
EdgesClosed ==
    /\ \A e \in graph.edges :
           /\ e[1] \in NodeKeys(graph.seed_papers) \cup NodeKeys(graph.cited_papers)
                           \cup NodeKeys(graph.citing_papers)
           /\ e[2] \in NodeKeys(graph.seed_papers) \cup NodeKeys(graph.cited_papers)
                           \cup NodeKeys(graph.citing_papers)
    /\ \A e, f \in graph.edges : (e[1] = f[1] /\ e[2] = f[2]) => e = f

\* C9, as stated: edge integrity.  Both ends of every edge are nodes, no two
\* edges have the same ends, and there is no edge to a reference, or from a
\* citing paper, whose count is below its threshold.
EdgeIntegrity ==
    graph.status = "ok" =>
        /\ EdgesClosed
        /\ \A p \in VizListed("references") :
               Cardinality(VizContributors("references", p[2])) < graph.k_cited
                   => ~HasEdge(p[1], p[2])
        /\ \A p \in VizListed("cited_by") :
               Cardinality(VizContributors("cited_by", p[2])) < graph.k_citing
                   => ~HasEdge(p[2], p[1])

\* C9: edge integrity.  Both ends of every edge are nodes, no two edges have
\* the same ends, and there is no edge to a reference whose count is below
\* k_cited unless the reference is a seed paper or is in citing_papers, and no
\* edge from a citing paper whose count is below k_citing unless the citing
\* paper is a seed paper or is in cited_papers.
EdgeIntegrityOfNodes ==
    graph.status = "ok" =>
        /\ EdgesClosed
        /\ \A p \in VizListed("references") :
               (/\ Cardinality(VizContributors("references", p[2])) < graph.k_cited
                /\ p[2] \notin NodeKeys(graph.seed_papers)
                /\ p[2] \notin NodeKeys(graph.citing_papers))
                   => ~HasEdge(p[1], p[2])
        /\ \A p \in VizListed("cited_by") :
               (/\ Cardinality(VizContributors("cited_by", p[2])) < graph.k_citing
                /\ p[2] \notin NodeKeys(graph.seed_papers)
                /\ p[2] \notin NodeKeys(graph.cited_papers))
                   => ~HasEdge(p[2], p[1])

\* the graph keeps an edge and leaves out the edge to a reference that is
\* below the threshold and is no node
EdgeIntegrityWitness ==
    /\ graph.status = "ok"
    /\ graph.edges # {}
    /\ \E p \in VizListed("references") :
           /\ Cardinality(VizContributors("references", p[2])) < graph.k_cited
           /\ p[2] \notin NodeKeys(graph.seed_papers)
           /\ p[2] \notin NodeKeys(graph.citing_papers)


---------------------------------------------------------------------------
(* Properties of merge_paper_lists *)

PaperRecordFields == {"title", "doi", "arxiv_id", "openalex_id", "s2_id",
                      "authors", "year", "venue"}

\* the addresses in the order the loop visits them
Traversal == list1 \o list2

\* the places of the traversal that hold a dict with the key of the dict at
\* address a, as the dicts were before the call
GroupOf(a) ==
    {n \in 1..Len(Traversal) :
        /\ heapBefore[Traversal[n]].kind = "dict"
        /\ MergeGetPaperKey(heapBefore[Traversal[n]].rec, Traversal[n])
               = MergeGetPaperKey(heapBefore[a].rec, a)}

\* the field of the merged record at address a is the first non-empty value
\* of the field in its group
FirstWins(a, f) ==
    LET filled == {n \in GroupOf(a) : Truthy(Get(heapBefore[Traversal[n]].rec, f, None))}
    IN  filled # {} =>
            heap[a].rec[f] =
                heapBefore[Traversal[CHOOSE n \in filled : \A m \in filled : n <= m]].rec[f]

\* C10: first-wins merge.  For every record that merge_paper_lists returns and
\* every field of a paper record, the field is the first non-empty value of
\* that field among the records of its key, in the order list1 then list2.
FirstWinsMerge ==
    merged.status = "ok" =>
        \A i \in 1..Len(merged.papers) :
            \A f \in PaperRecordFields : FirstWins(merged.papers[i], f)

\* C11: merge leaves its inputs unchanged.  After merge_paper_lists returns,
\* every dict of list1 and list2 has the field values it had before the call.
MergeLeavesInputs ==
    merged.status = "ok" => \A n \in 1..Len(Traversal) : heap[Traversal[n]] = heapBefore[Traversal[n]]

\* the provider tags among the records of the key of the dict at address a
ProviderTags(a) ==
    {heapBefore[Traversal[n]].rec["source"] :
        n \in {m \in GroupOf(a) : Truthy(Get(heapBefore[Traversal[m]].rec, "source", None))}}

\* C12: source tag accumulation.  The source of a merged record is the one
\* provider tag of its group when the group has one, and it is the combined
\* marker exactly when the group has more than one provider tag.
SourceTagAccumulates ==
    merged.status = "ok" =>
        \A i \in 1..Len(merged.papers) :
            /\ Cardinality(ProviderTags(merged.papers[i])) = 1 =>
                   heap[merged.papers[i]].rec["source"] \in ProviderTags(merged.papers[i])
            /\ heap[merged.papers[i]].rec["source"] = Str(CombinedSource) <=>
                   Cardinality(ProviderTags(merged.papers[i])) > 1

---------------------------------------------------------------------------
(* Properties of get_paper_key on malformed records *)

\* the member holds something: it is neither missing, nor null, nor empty
Present(p, f) == p[f].t \notin {"absent", "none"} /\ p[f] # Str(<<>>)

\* C13: totality of key derivation.  get_paper_key returns a key or None for
\* every record, it never raises, and it returns None exactly when the record
\* has no title that is non-empty after normalization, no doi, no arxiv_id, no
\* openalex_id and no s2_id.
KeyTotal ==
    key # Absent =>
        /\ key.t \in {"str", "none"}
        /\ key = None <=>
               /\ ~(Present(paper, "title") /\ NormalizeTitle(paper["title"]) # Str(<<>>))
               /\ \A f \in {"doi", "arxiv_id", "openalex_id", "s2_id"} : ~Present(paper, f)

---------------------------------------------------------------------------
(* Properties of both tools *)

\* the document without the entries whose metadata is null or empty
WithoutInert(d) ==
    LET live(e) == MetaTruthy(e.metadata)
    IN  [d EXCEPT !.papers = SelectSeq(d.papers, live)]

\* C14: seed entries without metadata are inert.  What analyze_citations and
\* analyze_for_graph return is what they return for the document without the
\* entries whose metadata is null or empty: such an entry adds no seed key,
\* and its lists add nothing to a count, a list, a node collection or an edge.
InertEntries ==
    /\ result.status # "none" =>
           result = AnalyzeCitations(WithoutInert(data), result.k_cited, result.k_citing)
    /\ graph.status # "none" =>
           graph = AnalyzeForGraph(WithoutInert(data), graph.k_cited, graph.k_citing)

\* both tools have run on a document in which an entry without metadata lists
\* a paper that is no seed paper, and threshold 1 would let it in
InertEntriesWitness ==
    /\ result.status = "ok"
    /\ graph.status = "ok"
    /\ result.k_cited = 1
    /\ graph.k_cited = 1
    /\ \E i \in 1..Len(PapersOf(data)) :
           /\ ~MetaTruthy(PapersOf(data)[i].metadata)
           /\ \E j \in 1..Len(PapersOf(data)[i].references) :
                  /\ GetPaperKey(PapersOf(data)[i].references[j]).s \notin SeedKeySet
                  /\ GetPaperKey(PapersOf(data)[i].references[j]).s
                         \notin ResultKeys(result.cited_papers)

\* C15: fail-closed on a malformed top-level document.  For a document that
\* has no "papers" member, analyze_citations and analyze_for_graph end in an
\* error: they return no result.
FailClosed ==
    ~data.has_papers =>
        /\ result.status # "ok"
        /\ graph.status # "ok"

\* the <<key, count>> pairs of a result list or of a node collection
KeyCounts(list) == {<<list[i].key.s, CountOf(list[i])>> : i \in 1..Len(list)}

\* C16: the two tools agree.  When analyze_citations and analyze_for_graph
\* have run on the same document with the same thresholds, cited_papers of the
\* graph has the keys of the cited list with the same count for each key, and
\* citing_papers has the keys and counts of the citing list.
ToolsAgree ==
    (/\ result.status = "ok"
     /\ graph.status = "ok"
     /\ result.k_cited = graph.k_cited
     /\ result.k_citing = graph.k_citing) =>
        /\ KeyCounts(graph.cited_papers) = KeyCounts(result.cited_papers)
        /\ KeyCounts(graph.citing_papers) = KeyCounts(result.citing_papers)

\* the document without its unresolvable records: the entries whose metadata
\* record has no key are left out, and so are the records of the lists that
\* have no key
Resolvable(d, keyOf(_)) ==
    LET keyed(r) == Truthy(keyOf(r))
        live(e) == ~MetaTruthy(e.metadata) \/ keyed(e.metadata.rec)
        lists(e) == [e EXCEPT !.references = SelectSeq(e.references, keyed),
                              !.cited_by = SelectSeq(e.cited_by, keyed)]
        entries == SelectSeq(d.papers, live)
    IN  [d EXCEPT !.papers = [i \in 1..Len(entries) |-> lists(entries[i])]]

\* C17: unresolvable records take no part.  Both tools return for a document
\* what they return for it without the records that have no key and without
\* the entries whose metadata record has no key, lists included.
UnresolvableInert ==
    /\ result.status # "none" =>
           result = AnalyzeCitations(Resolvable(data, GetPaperKey),
                                     result.k_cited, result.k_citing)
    /\ graph.status # "none" =>
           graph = AnalyzeForGraph(Resolvable(data, VizGetPaperKey),
                                   graph.k_cited, graph.k_citing)

\* the keys of a relation that are not seed keys and that at least k distinct
\* seed keys list
Members(rel, k) ==
    {x \in ListedKeys(rel) \ SeedKeySet : Cardinality(Contributors(rel, x)) >= k}

\* no two entries of the list have the same key
OneEntryPerKey(list) ==
    \A i, j \in 1..Len(list) : list[i].key = list[j].key => i = j

\* C18: result membership is exact.  The cited list of analyze_citations has
\* one entry for each key that is not a seed key and that at least k_cited
\* distinct seed keys list among their references, and no other entry; the
\* same holds for the citing list, cited_by and k_citing.
MembershipExact ==
    result.status = "ok" =>
        /\ ResultKeys(result.cited_papers) = Members("references", result.k_cited)
        /\ ResultKeys(result.citing_papers) = Members("cited_by", result.k_citing)
        /\ OneEntryPerKey(result.cited_papers)
        /\ OneEntryPerKey(result.citing_papers)

\* the seed keys of the entries that hold, in references or in cited_by, a
\* record with the entry's own key
SelfListed ==
    {p[1] : p \in {q \in VizListed("references") \cup VizListed("cited_by") : q[1] = q[2]}}

\* the keys that have an edge to themselves
SelfLoops == {e[1] : e \in {f \in graph.edges : f[1] = f[2]}}

\* C19: self-loops.  An edge of analyze_for_graph has its source as its target
\* only if a seed entry lists a record with the entry's own key, and a seed
\* that lists itself is in neither cited_papers nor citing_papers.
SelfLoopsOnlyOfSelfListed ==
    graph.status = "ok" =>
        /\ SelfLoops \subseteq SelfListed
        /\ SelfListed \cap NodeKeys(graph.cited_papers) = {}
        /\ SelfListed \cap NodeKeys(graph.citing_papers) = {}

\* a seed lists itself and the graph has the edge from it to itself
SelfLoopsWitness ==
    /\ graph.status = "ok"
    /\ graph.k_cited = 1
    /\ SelfLoops # {}
    /\ SelfListed # {}

\* <<i, j>> for the j-th record of the relation's list of the i-th entry
Positions(rel) ==
    UNION {{<<i, j>> : j \in 1..Len(RelationOf(PapersOf(data)[i], rel))} :
           i \in 1..Len(PapersOf(data))}

RecordAt(rel, p) == RelationOf(PapersOf(data)[p[1]], rel)[p[2]]

\* input order: entries in document order, records in list order
Before(p, q) == p[1] < q[1] \/ (p[1] = q[1] /\ p[2] < q[2])

\* the positions of the records with key k in the lists of the entries a tool
\* visits
PositionsOf(rel, k, keyOf(_), visited(_)) ==
    {p \in Positions(rel) : visited(PapersOf(data)[p[1]]) /\ keyOf(RecordAt(rel, p)) = Str(k)}

\* the first record with key k in input order
FirstRecord(rel, k, keyOf(_), visited(_)) ==
    LET at == PositionsOf(rel, k, keyOf, visited)
    IN  RecordAt(rel, CHOOSE p \in at : \A q \in at : p = q \/ Before(p, q))

\* what a tool reports for a field that the record does not have
ReportedDefault(f, untitled) ==
    IF f = "title" THEN untitled
    ELSE IF f = "authors" THEN ListVal(<<>>)
    ELSE IF f = "year" THEN None
    ELSE Str(<<>>)

\* every entry of the list reports, for each of the fields, the value of the
\* first record with its key
SnapshotOfFirst(list, rel, fields, untitled, keyOf(_), visited(_)) ==
    \A i \in 1..Len(list) :
        LET first == FirstRecord(rel, list[i].key.s, keyOf, visited)
        IN  \A f \in fields : list[i][f] = Get(first, f, ReportedDefault(f, untitled))

AnalyzeVisits(e) == MetaTruthy(e.metadata)
GraphVisits(e) == Truthy(VizSeedKeyOf(e))
AnalyzeReports == {"doi", "arxiv_id", "title", "authors", "year", "venue"}
GraphReports == {"title", "authors", "year", "venue"}

FirstSnapshotOfResult ==
    result.status = "ok" =>
        /\ SnapshotOfFirst(result.cited_papers, "references", AnalyzeReports,
                           Str(<<>>), GetPaperKey, AnalyzeVisits)
        /\ SnapshotOfFirst(result.citing_papers, "cited_by", AnalyzeReports,
                           Str(<<>>), GetPaperKey, AnalyzeVisits)

FirstSnapshotOfGraph ==
    graph.status = "ok" =>
        /\ SnapshotOfFirst(graph.cited_papers, "references", GraphReports,
                           Str(UnknownTitle), VizGetPaperKey, GraphVisits)
        /\ SnapshotOfFirst(graph.citing_papers, "cited_by", GraphReports,
                           Str(UnknownTitle), VizGetPaperKey, GraphVisits)

\* C20: first metadata snapshot.  After any runs of analyze_citations and of
\* analyze_for_graph, the descriptive fields reported for a key are those of
\* the first record with that key in input order, whatever later records with
\* the key hold, and no run changes the input document.
FirstSnapshot ==
    /\ []FirstSnapshotOfResult
    /\ []FirstSnapshotOfGraph
    /\ [][data' = data]_vars

\* a returned entry and a returned node whose key has a later record with
\* other descriptive fields than the first
FirstSnapshotWitness ==
    /\ result.status = "ok"
    /\ graph.status = "ok"
    /\ \E i \in 1..Len(result.cited_papers) :
           \E p \in PositionsOf("references", result.cited_papers[i].key.s,
                                GetPaperKey, AnalyzeVisits) :
               RecordAt("references", p) #
                   FirstRecord("references", result.cited_papers[i].key.s,
                               GetPaperKey, AnalyzeVisits)
    /\ \E i \in 1..Len(graph.cited_papers) :
           \E p \in PositionsOf("references", graph.cited_papers[i].key.s,
                                VizGetPaperKey, GraphVisits) :
               RecordAt("references", p) #
                   FirstRecord("references", graph.cited_papers[i].key.s,
                               VizGetPaperKey, GraphVisits)

\* every node of the collection has as its count the number of distinct seed
\* keys that list its key, and that number is at least k
DistinctSeedCounts(nodes, rel, k) ==
    \A i \in 1..Len(nodes) :
        /\ CountOf(nodes[i]) = Cardinality(VizContributors(rel, nodes[i].key.s))
        /\ Cardinality(VizContributors(rel, nodes[i].key.s)) >= k

\* C21: graph counts are distinct-seed counts.  For every node of cited_papers
\* (citing_papers) of analyze_for_graph, c_in (c_out) is the number of distinct
\* seed keys whose references (cited_by) list holds a record with the node's
\* key, and the node is there only if that number is at least the threshold.
GraphCounts ==
    graph.status = "ok" =>
        /\ DistinctSeedCounts(graph.cited_papers, "references", graph.k_cited)
        /\ DistinctSeedCounts(graph.citing_papers, "cited_by", graph.k_citing)

\* a node with count 1 whose key two records of the references lists have: one
\* list holds it twice, or two entries with the same seed key hold it
GraphCountsWitness ==
    /\ graph.status = "ok"
    /\ \E i \in 1..Len(graph.cited_papers) :
           /\ graph.cited_papers[i].c_in = 1
           /\ Cardinality(PositionsOf("references", graph.cited_papers[i].key.s,
                                      VizGetPaperKey, GraphVisits)) > 1

\* the key of the dict at address a, after and before the call
KeyAfter(a) == MergeGetPaperKey(heap[a].rec, a)
KeyWhenSeen(a) == MergeGetPaperKey(heapBefore[a].rec, a)

\* the places of the traversal at which a key occurs for the first time
FirstPlaces ==
    {n \in 1..Len(Traversal) :
        /\ heapBefore[Traversal[n]].kind = "dict"
        /\ \A m \in GroupOf(Traversal[n]) : n <= m}

PlaceOf(a) == CHOOSE n \in 1..Len(Traversal) : Traversal[n] = a

\* C22: stable, pairwise distinct keys.  For every record that
\* merge_paper_lists returns, the key computed from it after the merge is the
\* key it was stored under; no two returned records have the same key; and the
\* records are in the order in which their keys first occur in list1 followed
\* by list2.
StableDistinctKeys ==
    merged.status = "ok" =>
        /\ \A i \in 1..Len(merged.papers) :
               KeyAfter(merged.papers[i]) = KeyWhenSeen(merged.papers[i])
        /\ \A i, j \in 1..Len(merged.papers) :
               KeyAfter(merged.papers[i]) = KeyAfter(merged.papers[j]) => i = j
        /\ {PlaceOf(merged.papers[i]) : i \in 1..Len(merged.papers)} = FirstPlaces
        /\ \A i, j \in 1..Len(merged.papers) :
               i < j => PlaceOf(merged.papers[i]) < PlaceOf(merged.papers[j])

\* two records are returned, and the merge gave one of them the title that a
\* key is made of when there is no DOI and no arXiv id
StableDistinctKeysWitness ==
    /\ merged.status = "ok"
    /\ Len(merged.papers) >= 2
    /\ \E i \in 1..Len(merged.papers) :
           /\ ~Truthy(Get(heapBefore[merged.papers[i]].rec, "title", None))
           /\ Truthy(Get(heap[merged.papers[i]].rec, "title", None))

=============================================================================
